---------------------------- MODULE Spec2Model ----------------------------
(***************************************************************************)
(* HASteward: triage analysis and the repair state machines of the two     *)
(* engines (cnpg = CloudNativePG PostgreSQL, galera = MariaDB Galera).     *)
(*                                                                         *)
(* Pods are named <cluster>-<ordinal>; the model names a pod by its        *)
(* ordinal.  The empty pod name "" (no currentPrimary) is NoPod.           *)
(* The string "unknown" of a timeline field is UnknownTimeline, of an LSN  *)
(* field UnknownLSN; a known LSN "hi/lo" is the pair <<hi, lo>>.           *)
(***************************************************************************)
EXTENDS Integers, Sequences, FiniteSets, Bags, TLC

VARIABLES
    engine,     \* "cnpg" | "galera": which Engine runs
    mode,       \* "triage" (Triage alone) | "repair" (Repair)
    cfg,        \* common.Config: Force, NoEscrow, InstanceNumber
    data,       \* triageData / galeraTriageData as triageCollect returns it
    result,     \* common.TriageResult of the last Triage, or NoResult
    pc,         \* position of the worker inside Repair / heal
    err,        \* error returned by Repair ("" while running or nil)
    k8s,        \* platform state: pods, PVCs, fence list, CR suspend, scale
    loc,        \* locals of Repair and of the running heal
    log,        \* sequence of platform mutations issued so far
    snapshots   \* restic snapshots written by this run

vars == <<engine, mode, cfg, data, result, pc, err, k8s, loc, log, snapshots>>

---------------------------------------------------------------------------
(* Bounds of the model *)

\* number of instances of a cnpg cluster in the triage specification
TriageInstances == 3
\* largest timeline id a pg_controldata record carries
MaxTimeline == 2
\* number of instances of a cnpg cluster under repair
RepairInstances == 3
\* number of nodes (StatefulSet replicas) of a galera cluster under repair
RepairNodes == 2
\* number of nodes of a galera cluster in the triage specification
TriageNodes == 2
\* largest seqno a galera node reports
MaxSeqno == 2
\* iterations of a poll loop before its timeout expires (deleteTimeout,
\* healTimeout/10, the 30 retries of a helper pod wait)
PollIterations == 2

\* the empty pod name (no currentPrimary); a nil Config.InstanceNumber
NoPod == -1
NoTarget == -2
NoResult == [none |-> TRUE]
NoData == [none |-> TRUE]

\* the elements of a set of ordinals in ascending order (the order the API
\* lists pods in, and the order of expectedInstances)
SortedSeq(S) ==
    [i \in 1..Cardinality(S) |->
        CHOOSE x \in S : Cardinality({y \in S : y < x}) = i - 1]

---------------------------------------------------------------------------
(* engine/cnpg/triage.go: parsing helpers *)

UnknownTimeline == -1
UnknownLSN == << >>

\* parseTimelineInt: "unknown" or unparsable is 0
parseTimelineInt(tl) == IF tl = UnknownTimeline THEN 0 ELSE tl

\* the weight of the high word of an LSN.  The code multiplies by 2^32
\* (4294967296), which TLC's 32-bit integers cannot hold; the low
\* words of the model stay below WordWeight, as the code's stay below 2^32.
WordWeight == 65536

\* parseLSNValue: "hi/lo" hex is hi*2^32 + lo, "unknown" is 0
parseLSNValue(lsn) == IF lsn = UnknownLSN THEN 0 ELSE lsn[1] * WordWeight + lsn[2]

\* triageCollect, "Identify primary controldata": the first record of the
\* current primary, or an all-unknown record when there is none
cnpg_primaryControlData(d) ==
    LET idx == {i \in 1..Len(d.controlData) : d.controlData[i].Pod = d.currentPrimary}
    IN IF idx = {}
       THEN [Pod |-> NoPod, Source |-> "none", Timeline |-> UnknownTimeline,
             CheckpointLocation |-> UnknownLSN, CrashReason |-> ""]
       ELSE d.controlData[CHOOSE i \in idx : \A j \in idx : i <= j]

cnpg_primaryTimeline(d) == cnpg_primaryControlData(d).Timeline

---------------------------------------------------------------------------
(* engine/cnpg/triage.go: crossInstanceComparison *)

\* the loop body with the same-timeline LSN comparison left out
cnpg_compareStep_timelineOnly(acc, inst, primaryName, pTL, pLSN) ==
    IF inst.Pod = primaryName \/ inst.Timeline = UnknownTimeline
    THEN acc
    ELSE LET instTL == parseTimelineInt(inst.Timeline) IN
         IF instTL > acc.mostAdvancedTL
         THEN [mostAdvanced |-> inst.Pod, mostAdvancedTL |-> instTL,
               mostAdvancedLSN |-> inst.CheckpointLocation,
               splitBrain |-> Append(acc.splitBrain, [pod |-> inst.Pod, why |-> "timeline"])]
         ELSE acc

\* one iteration of the loop over data.controlData; acc carries mostAdvanced,
\* mostAdvancedTL, mostAdvancedLSN and the splitBrain list
cnpg_compareStep(acc, inst, primaryName, pTL, pLSN) ==
    IF inst.Pod = primaryName \/ inst.Timeline = UnknownTimeline
    THEN acc
    ELSE LET instTL == parseTimelineInt(inst.Timeline) IN
         IF instTL > acc.mostAdvancedTL
         THEN [mostAdvanced |-> inst.Pod, mostAdvancedTL |-> instTL,
               mostAdvancedLSN |-> inst.CheckpointLocation,
               splitBrain |-> Append(acc.splitBrain, [pod |-> inst.Pod, why |-> "timeline"])]
         ELSE IF /\ instTL = acc.mostAdvancedTL
                 /\ inst.CheckpointLocation # UnknownLSN
                 /\ pLSN # UnknownLSN
                 /\ parseLSNValue(inst.CheckpointLocation) > parseLSNValue(pLSN)
              THEN [acc EXCEPT !.splitBrain =
                        Append(acc.splitBrain, [pod |-> inst.Pod, why |-> "lsn"])]
              ELSE acc

RECURSIVE cnpg_compareLoop(_, _, _, _, _, _)
cnpg_compareLoop(acc, cds, i, primaryName, pTL, pLSN) ==
    IF i > Len(cds) THEN acc
    ELSE cnpg_compareLoop(cnpg_compareStep(acc, cds[i], primaryName, pTL, pLSN),
                          cds, i + 1, primaryName, pTL, pLSN)

cnpg_crossInstanceComparison(d, primaryName) ==
    LET pTL  == parseTimelineInt(cnpg_primaryTimeline(d))
        pLSN == cnpg_primaryControlData(d).CheckpointLocation
        acc0 == [mostAdvanced |-> primaryName, mostAdvancedTL |-> pTL,
                 mostAdvancedLSN |-> pLSN, splitBrain |-> << >>]
        acc  == cnpg_compareLoop(acc0, d.controlData, 1, primaryName, pTL, pLSN)
    IN [MostAdvanced       |-> acc.mostAdvanced,
        MostAdvancedValue  |-> acc.mostAdvancedTL,
        CheckpointLocation |-> acc.mostAdvancedLSN,
        SafeToHeal         |-> Len(acc.splitBrain) = 0,
        SplitBrainDetails  |-> acc.splitBrain,
        PrimaryMembers     |-> << >>,
        BestPrimarySeqno   |-> 0]

---------------------------------------------------------------------------
(* engine/cnpg/triage.go: buildAssessments *)

\* the switch of buildAssessments for one controlData record; Branch names
\* the case taken.  IsRunning, IsReady and Instance are never assigned by
\* the cnpg engine and keep Go's zero values.
cnpg_assess(d, comparison, primaryName, inst) ==
    LET pTL         == cnpg_primaryTimeline(d)
        pLSNVal     == parseLSNValue(cnpg_primaryControlData(d).CheckpointLocation)
        isPrimary   == inst.Pod = primaryName
        isMissing   == inst.Pod \in d.missingInstances
        isCrashloop == inst.Pod \in d.crashloopPods
        isStreaming == inst.Pod \in d.streamingReplicas
        diskFull    == inst.CrashReason = "disk_full"
        hasData     == inst.Source # "none"
        instTL      == inst.Timeline
        instLSNVal  == parseLSNValue(inst.CheckpointLocation)
        sameTL      == instTL = pTL /\ instTL # UnknownTimeline
        behindTL    == /\ instTL # UnknownTimeline /\ pTL # UnknownTimeline
                       /\ parseTimelineInt(instTL) < parseTimelineInt(pTL)
        behindLSN   == sameTL /\ instLSNVal < pLSNVal
        aheadLSN    == sameTL /\ instLSNVal > pLSNVal
        aheadTL     == /\ instTL # UnknownTimeline /\ pTL # UnknownTimeline
                       /\ parseTimelineInt(instTL) > parseTimelineInt(pTL)
        verdict ==
            CASE isPrimary ->
                    [heal |-> FALSE, branch |-> "primary"]
              [] ~isPrimary /\ ~comparison.SafeToHeal ->
                    [heal |-> FALSE,
                     branch |-> IF aheadTL \/ aheadLSN THEN "ahead"
                                ELSE IF ~hasData THEN "nodata-splitbrain"
                                ELSE "splitbrain-elsewhere"]
              [] ~isPrimary /\ comparison.SafeToHeal /\ ~hasData ->
                    [heal |-> FALSE, branch |-> "nodata"]
              [] ~isPrimary /\ comparison.SafeToHeal /\ hasData /\ behindTL ->
                    [heal |-> TRUE, branch |-> "behind-timeline"]
              [] ~isPrimary /\ comparison.SafeToHeal /\ hasData /\ ~behindTL
                   /\ sameTL /\ behindLSN /\ isStreaming ->
                    [heal |-> FALSE, branch |-> "streaming"]
              [] ~isPrimary /\ comparison.SafeToHeal /\ hasData /\ ~behindTL
                   /\ sameTL /\ behindLSN /\ ~isStreaming ->
                    IF diskFull THEN [heal |-> TRUE, branch |-> "behind-diskfull"]
                    ELSE IF isMissing THEN [heal |-> FALSE, branch |-> "behind-missing"]
                    ELSE IF isCrashloop THEN [heal |-> FALSE, branch |-> "behind-crashloop"]
                    ELSE [heal |-> TRUE, branch |-> "behind-not-streaming"]
              [] ~isPrimary /\ comparison.SafeToHeal /\ hasData /\ ~behindTL
                   /\ sameTL /\ ~behindLSN ->
                    [heal |-> FALSE, branch |-> "current"]
              [] OTHER ->
                    [heal |-> FALSE, branch |-> "timeline-unknown"]
    IN [Pod       |-> inst.Pod,
        Instance  |-> 0,
        IsRunning |-> FALSE,
        IsReady   |-> FALSE,
        IsInPrimary |-> FALSE,
        NeedsHeal |-> verdict.heal,
        IsPrimary |-> isPrimary,
        Timeline  |-> parseTimelineInt(instTL),
        LSN       |-> inst.CheckpointLocation,
        Branch    |-> verdict.branch]

\* buildAssessments reading every instance as if the cluster were safe to heal
cnpg_buildAssessments_ignoreSafe(d, comparison, primaryName) ==
    [i \in 1..Len(d.controlData) |->
        cnpg_assess(d, [comparison EXCEPT !.SafeToHeal = TRUE], primaryName,
                    d.controlData[i])]

cnpg_buildAssessments(d, comparison, primaryName) ==
    [i \in 1..Len(d.controlData) |->
        cnpg_assess(d, comparison, primaryName, d.controlData[i])]

\* triageAnalyze: comparison, then the per-instance assessments
cnpg_triageAnalyze(d) ==
    LET comparison == cnpg_crossInstanceComparison(d, d.currentPrimary)
    IN [Assessments    |-> cnpg_buildAssessments(d, comparison, d.currentPrimary),
        DataComparison |-> comparison]

---------------------------------------------------------------------------
(* engine/cnpg/triage.go: triageCollect, the part that assembles the data *)

\* ev maps each expected instance to what was read for it: Source "exec"
\* (pg_controldata in the running pod), "pvc_probe" (probe pod on the PVC) or
\* "none".  controlData lists the exec'd pods first, then the probed ones,
\* then the instances nothing could be read for.
cnpg_triageData(ev, currentPrimary, missing, crashloop, streaming) ==
    LET pods   == DOMAIN ev
        bySrc(s) == SortedSeq({p \in pods : ev[p].Source = s})
        order  == bySrc("exec") \o bySrc("pvc_probe") \o bySrc("none")
    IN [controlData       |-> [i \in 1..Len(order) |->
                                 [Pod                |-> order[i],
                                  Source             |-> ev[order[i]].Source,
                                  Timeline           |-> ev[order[i]].Timeline,
                                  CheckpointLocation |-> ev[order[i]].CheckpointLocation,
                                  CrashReason        |-> ev[order[i]].CrashReason]],
        currentPrimary    |-> currentPrimary,
        missingInstances  |-> missing,
        crashloopPods     |-> crashloop,
        streamingReplicas |-> streaming]

---------------------------------------------------------------------------
(* Specification SpecTriageCnpg: triageAnalyze of the cnpg engine on every    *)
(* collected data set of TriageInstances instances.  A record that carries   *)
(* a timeline carries a checkpoint location: pg_controldata prints both.     *)

\* checkpoint locations "0/2" and "1/1": the order of their values is the
\* reverse of the order of their low words
CnpgLSNs == {<<0, 2>>, <<1, 1>>}

CnpgTriageEvidence ==
    {[Source |-> s, Timeline |-> t, CheckpointLocation |-> l, CrashReason |-> ""] :
        s \in {"exec", "pvc_probe"}, t \in 1..MaxTimeline, l \in CnpgLSNs}
    \cup {[Source |-> s, Timeline |-> UnknownTimeline,
           CheckpointLocation |-> UnknownLSN, CrashReason |-> ""] :
              s \in {"pvc_probe", "none"}}

IdleCfg == [Force |-> FALSE, NoEscrow |-> FALSE, InstanceNumber |-> NoTarget]
IdleK8s == [none |-> TRUE]
IdleLoc == [none |-> TRUE]

InitTriageCnpg ==
    /\ engine = "cnpg"
    /\ mode = "triage"
    /\ cfg = IdleCfg
    /\ \E ev \in [1..TriageInstances -> CnpgTriageEvidence],
          p \in {NoPod} \cup (1..TriageInstances) :
            data = cnpg_triageData(ev, p,
                       {i \in 1..TriageInstances : ev[i].Source # "exec"}, {}, {})
    /\ result = NoResult
    /\ pc = "Triage"
    /\ err = ""
    /\ k8s = IdleK8s
    /\ loc = IdleLoc
    /\ log = << >>
    /\ snapshots = << >>

\* Engine.Triage after a successful triageCollect
TriageCnpg ==
    /\ mode = "triage" /\ engine = "cnpg" /\ pc = "Triage"
    /\ result' = cnpg_triageAnalyze(data)
    /\ pc' = "done"
    /\ UNCHANGED <<engine, mode, cfg, data, err, k8s, loc, log, snapshots>>

NextTriageCnpg == TriageCnpg

SpecTriageCnpg == InitTriageCnpg /\ [][NextTriageCnpg]_vars

\* the (timeline, checkpoint LSN) position of a controlData record, the LSN
\* "hi/lo" read as the pair it is; an unknown field counts as 0
C6_Position(cd) ==
    <<IF cd.Timeline = UnknownTimeline THEN 0 ELSE cd.Timeline,
      IF cd.CheckpointLocation = UnknownLSN THEN 0 ELSE cd.CheckpointLocation[1],
      IF cd.CheckpointLocation = UnknownLSN THEN 0 ELSE cd.CheckpointLocation[2]>>

C6_Greater(a, b) ==
    \/ a[1] > b[1]
    \/ a[1] = b[1] /\ a[2] > b[2]
    \/ a[1] = b[1] /\ a[2] = b[2] /\ a[3] > b[3]

\* the non-primary instances whose timeline was read and that are ahead of
\* the primary's position
C6_AheadOfPrimary ==
    {i \in 1..Len(data.controlData) :
        /\ data.controlData[i].Pod # data.currentPrimary
        /\ data.controlData[i].Timeline # UnknownTimeline
        /\ C6_Greater(C6_Position(data.controlData[i]),
                      C6_Position(cnpg_primaryControlData(data)))}

\* C6: for every Postgres triage result, safeToHeal is true if and only if no
\* non-primary instance has a (timeline, checkpoint LSN) position strictly
\* greater than the primary's: a greater timeline, or the same timeline and
\* a greater LSN.
C6_SafeIffNoneAhead ==
    (engine = "cnpg" /\ mode = "triage" /\ result # NoResult) =>
        (result.DataComparison.SafeToHeal <=> C6_AheadOfPrimary = {})

\* a triage result where a replica on the primary's timeline is ahead by LSN
\* only in the high word, next to one that is behind
C6_Witness ==
    /\ engine = "cnpg" /\ mode = "triage" /\ result # NoResult
    /\ ~result.DataComparison.SafeToHeal
    /\ data.currentPrimary # NoPod
    /\ cnpg_primaryControlData(data).CheckpointLocation = <<0, 2>>
    /\ \E i \in C6_AheadOfPrimary :
          /\ data.controlData[i].Timeline = cnpg_primaryTimeline(data)
          /\ data.controlData[i].CheckpointLocation = <<1, 1>>
    /\ \E i \in 1..Len(data.controlData) : i \notin C6_AheadOfPrimary
          /\ data.controlData[i].Pod # data.currentPrimary
          /\ data.controlData[i].Timeline # UnknownTimeline


\* C24: in every Postgres triage result, mostAdvanced is the pod whose
\* (timeline, LSN) position is the largest, in lexicographic order, among the
\* primary and the instances whose control data was read.
C24_MostAdvancedIsLargest ==
    (engine = "cnpg" /\ mode = "triage" /\ result # NoResult) =>
        LET known == {i \in 1..Len(data.controlData) :
                         \/ data.controlData[i].Pod = data.currentPrimary
                         \/ data.controlData[i].Timeline # UnknownTimeline}
        IN known # {} =>
             \E i \in known :
                /\ data.controlData[i].Pod = result.DataComparison.MostAdvanced
                /\ \A j \in known :
                      ~C6_Greater(C6_Position(data.controlData[j]),
                                  C6_Position(data.controlData[i]))

\* C26: in every Postgres triage result an assessment has needsHeal=true only
\* if its instance is not the primary and the cluster is safe to heal: the
\* primary is never marked, and under safeToHeal=false no instance is.
C26_NeedsHealOnlyReplicaWhenSafe ==
    (engine = "cnpg" /\ mode = "triage" /\ result # NoResult) =>
        \A i \in 1..Len(result.Assessments) :
            result.Assessments[i].NeedsHeal =>
                /\ result.Assessments[i].Pod # data.currentPrimary
                /\ result.DataComparison.SafeToHeal

\* a safe result with a primary whose control data was read, one replica
\* marked for heal and one replica left alone
C26_Witness ==
    /\ engine = "cnpg" /\ mode = "triage" /\ result # NoResult
    /\ result.DataComparison.SafeToHeal
    /\ cnpg_primaryTimeline(data) # UnknownTimeline
    /\ \E i, j \in 1..Len(result.Assessments) :
          /\ result.Assessments[i].NeedsHeal
          /\ result.Assessments[j].Pod # data.currentPrimary
          /\ ~result.Assessments[j].NeedsHeal
---------------------------------------------------------------------------
(* galera triage.go: parsing defaults and triageCollect *)

ZeroUUID == "00000000-0000-0000-0000-000000000000"

\* no entry in wsrepMap (the pod is not running or is crash-looping)
NoWs == [none |-> TRUE]

\* &wsrepStatus{}: what wsrepMap holds when the status query failed
EmptyWs ==
    [LocalState |-> 0, Connected |-> "", Ready |-> "", ClusterStatus |-> "",
     ClusterStateUUID |-> "", LastCommitted |-> 0]

\* grastate{...} of a node nothing could be read for
NoGrastate == [Source |-> "none", UUID |-> "unknown", Seqno |-> -1]

Max(S) == CHOOSE x \in S : \A y \in S : y <= x

\* "Effective seqno": the greatest of wsrep_last_committed, the CR's
\* recovered and state seqnos and the grastate seqno, and at least -1
galera_effectiveSeqno(ws, crRecSeqno, crStateSeqno, grastateSeqno) ==
    LET wsCommitted == IF ws = NoWs THEN -1 ELSE ws.LastCommitted
        step(best, c) == IF c.val > best.Value
                         THEN [Value |-> c.val, Source |-> c.source] ELSE best
        b0 == [Value |-> -1, Source |-> "none"]
        b1 == step(b0, [val |-> wsCommitted, source |-> "wsrep_last_committed"])
        b2 == step(b1, [val |-> crRecSeqno, source |-> "cr_recovered"])
        b3 == step(b2, [val |-> crStateSeqno, source |-> "cr_state"])
    IN step(b3, [val |-> grastateSeqno, source |-> "grastate"])

\* ev maps each expected node to what was read for it: pod ("running",
\* "crashloop", "absent"), gra (its grastate), ws (its wsrep status or
\* NoWs), cr (the seqno of status.galeraRecovery, -1 when absent) and
\* crashReason.  primaryMembers is built by ranging over a Go map: its order
\* is unspecified and the model keeps it as a set.
galera_triageData(ev) ==
    LET nodes == DOMAIN ev
        bySrc(s) == SortedSeq({p \in nodes : ev[p].gra.Source = s})
        order == bySrc("exec") \o bySrc("exec_crashloop")
                   \o bySrc("pvc_probe") \o bySrc("none")
        inMap == {p \in nodes : ev[p].ws # NoWs}
    IN [grastateData    |-> [i \in 1..Len(order) |->
                               [Pod    |-> order[i],
                                Source |-> ev[order[i]].gra.Source,
                                UUID   |-> ev[order[i]].gra.UUID,
                                Seqno  |-> ev[order[i]].gra.Seqno]],
        wsrepMap        |-> [p \in inMap |-> ev[p].ws],
        effectiveSeqnos |-> [p \in nodes |->
                               galera_effectiveSeqno(ev[p].ws, ev[p].cr, -1,
                                                     ev[p].gra.Seqno)],
        runningPods     |-> {p \in nodes : ev[p].pod \in {"running", "crashloop"}},
        crashloopPods   |-> {p \in nodes : ev[p].pod = "crashloop"},
        missingNodes    |-> {p \in nodes : ev[p].pod = "absent"},
        crashReasons    |-> [p \in nodes |-> ev[p].crashReason],
        primaryMembers  |-> {p \in inMap : ev[p].ws.ClusterStatus = "Primary"}]

---------------------------------------------------------------------------
(* galera triage.go: crossInstanceComparison *)

galera_uuidSet(d) ==
    {d.grastateData[i].UUID : i \in {j \in 1..Len(d.grastateData) :
        d.grastateData[j].UUID \notin {"unknown", ZeroUUID}}}
    \cup {d.wsrepMap[p].ClusterStateUUID : p \in {q \in DOMAIN d.wsrepMap :
        d.wsrepMap[q].ClusterStateUUID # ""}}

\* "Non-primary component check"
galera_nonPrimaryFlags(d) ==
    {p \in DOMAIN d.wsrepMap :
        d.wsrepMap[p].ClusterStatus # "" /\ d.wsrepMap[p].ClusterStatus # "Primary"}

galera_bestPrimarySeqno(d) ==
    Max({-2} \cup {d.effectiveSeqnos[pm].Value :
                      pm \in d.primaryMembers \cap DOMAIN d.effectiveSeqnos})

\* "Seqno comparison", only when there are primary members
galera_seqnoFlags(d) ==
    IF d.primaryMembers # {}
    THEN {p \in DOMAIN d.effectiveSeqnos :
            /\ p \notin d.primaryMembers
            /\ d.effectiveSeqnos[p].Value > galera_bestPrimarySeqno(d)
            /\ d.effectiveSeqnos[p].Value > 0}
    ELSE {}

galera_crossInstanceComparison(d) ==
    LET splitBrain ==
            (IF Cardinality(galera_uuidSet(d)) > 1
             THEN {[pod |-> NoPod, why |-> "uuid"]} ELSE {})
            \cup {[pod |-> p, why |-> "cluster_status"] : p \in galera_nonPrimaryFlags(d)}
            \cup {[pod |-> p, why |-> "seqno"] : p \in galera_seqnoFlags(d)}
    IN [SafeToHeal        |-> splitBrain = {},
        SplitBrainDetails |-> splitBrain,
        PrimaryMembers    |-> d.primaryMembers,
        BestPrimarySeqno  |-> galera_bestPrimarySeqno(d)]

---------------------------------------------------------------------------
(* galera triage.go: buildAssessments *)

\* the switch of buildAssessments for one grastate record; Branch names the
\* case taken.  Instance is never assigned and keeps Go's zero value.
galera_assess(d, comparison, gs) ==
    LET isMissing   == gs.Pod \in d.missingNodes
        isCrashloop == gs.Pod \in d.crashloopPods
        isRunning   == gs.Pod \in d.runningPods /\ ~isCrashloop
        isInPrimary == gs.Pod \in d.primaryMembers
        hasData     == gs.Source # "none"
        hasWs       == gs.Pod \in DOMAIN d.wsrepMap
        ws          == IF hasWs THEN d.wsrepMap[gs.Pod] ELSE EmptyWs
        wsState     == IF hasWs THEN ws.LocalState ELSE 0
        wsConnected == IF hasWs THEN ws.Connected ELSE "OFF"
        wsReady     == IF hasWs THEN ws.Ready ELSE "OFF"
        wsClusterStatus == IF hasWs THEN ws.ClusterStatus ELSE "unknown"
        bestPrimarySeqno == comparison.BestPrimarySeqno
        nodeSeqno   == d.effectiveSeqnos[gs.Pod].Value
        seqnoLag    == IF bestPrimarySeqno > 0 /\ nodeSeqno > 0
                       THEN bestPrimarySeqno - nodeSeqno ELSE -1
        diskFull    == d.crashReasons[gs.Pod] = "disk_full"
        dataCurrent == nodeSeqno > 0 /\ bestPrimarySeqno > 0 /\ seqnoLag <= 0
        verdict ==
            IF ~comparison.SafeToHeal THEN
                [heal |-> FALSE,
                 branch |-> IF ~isInPrimary /\ nodeSeqno > bestPrimarySeqno /\ nodeSeqno > 0
                            THEN "ahead"
                            ELSE IF ~hasData THEN "nodata-splitbrain"
                            ELSE "splitbrain"]
            ELSE IF /\ isRunning /\ wsState = 4 /\ wsConnected = "ON"
                    /\ wsReady = "ON" /\ wsClusterStatus = "Primary" THEN
                [heal |-> FALSE, branch |-> "healthy"]
            ELSE IF isRunning /\ wsState >= 1 /\ wsState <= 3 /\ wsConnected = "ON" THEN
                [heal |-> FALSE, branch |-> "transitional"]
            ELSE IF isRunning /\ (wsConnected = "OFF" \/ wsReady = "OFF") THEN
                [heal |-> TRUE, branch |-> "disconnected"]
            ELSE IF isRunning /\ wsClusterStatus # "Primary" /\ wsClusterStatus # "unknown" THEN
                [heal |-> TRUE, branch |-> "non-primary"]
            ELSE IF isRunning /\ ~hasWs THEN
                [heal |-> TRUE, branch |-> "wsrep-failed"]
            ELSE IF isCrashloop THEN
                IF diskFull THEN [heal |-> TRUE, branch |-> "crashloop-diskfull"]
                ELSE IF dataCurrent THEN [heal |-> FALSE, branch |-> "crashloop-current"]
                ELSE [heal |-> TRUE, branch |-> "crashloop-stale"]
            ELSE IF isMissing /\ hasData THEN
                IF dataCurrent THEN [heal |-> FALSE, branch |-> "missing-current"]
                ELSE [heal |-> TRUE, branch |-> "missing-stale"]
            ELSE IF isMissing THEN
                [heal |-> FALSE, branch |-> "missing-nodata"]
            ELSE [heal |-> FALSE, branch |-> "unknown"]
    IN [Pod            |-> gs.Pod,
        Instance       |-> 0,
        IsRunning      |-> isRunning,
        IsReady        |-> isRunning /\ wsState = 4,
        IsInPrimary    |-> isInPrimary,
        NeedsHeal      |-> verdict.heal,
        IsPrimary      |-> FALSE,
        EffectiveSeqno |-> nodeSeqno,
        Branch         |-> verdict.branch]

galera_buildAssessments(d, comparison) ==
    [i \in 1..Len(d.grastateData) |-> galera_assess(d, comparison, d.grastateData[i])]

galera_triageAnalyze(d) ==
    LET comparison == galera_crossInstanceComparison(d)
    IN [Assessments    |-> galera_buildAssessments(d, comparison),
        DataComparison |-> comparison]

---------------------------------------------------------------------------
(* Specification SpecTriageGalera: triageAnalyze of the galera engine on     *)
(* every collected data set of TriageNodes nodes.  A node that answers the   *)
(* wsrep query reports its cluster UUID and a wsrep_last_committed of 0 or   *)
(* more, and its grastate.dat carries that UUID with seqno -1 (the file of   *)
(* a running node); a node that is down left a grastate.dat behind.          *)

GaleraUUIDs == {"u1", "u2"}

GaleraRunningEvidence ==
    {[pod |-> "running",
      gra |-> [Source |-> "exec", UUID |-> u, Seqno |-> -1],
      ws  |-> [LocalState |-> IF st = "Primary" THEN 4 ELSE 0,
               Connected |-> "ON",
               Ready |-> rd,
               ClusterStatus |-> st, ClusterStateUUID |-> u, LastCommitted |-> n],
      cr |-> -1, crashReason |-> ""] :
        u \in GaleraUUIDs, st \in {"Primary", "non-Primary"}, n \in 0..MaxSeqno,
        rd \in {"ON", "OFF"}}
    \cup {[pod |-> "running",
           gra |-> [Source |-> "exec", UUID |-> "u1", Seqno |-> -1],
           ws |-> EmptyWs, cr |-> -1, crashReason |-> ""]}

GaleraDownEvidence ==
    {[pod |-> pd,
      gra |-> [Source |-> IF pd = "crashloop" THEN "exec_crashloop" ELSE "pvc_probe",
               UUID |-> u, Seqno |-> n],
      ws |-> NoWs, cr |-> -1, crashReason |-> ""] :
        pd \in {"crashloop", "absent"}, u \in GaleraUUIDs, n \in (-1)..MaxSeqno}
    \cup {[pod |-> pd,
           gra |-> [Source |-> IF pd = "crashloop" THEN "exec_crashloop" ELSE "pvc_probe",
                    UUID |-> ZeroUUID, Seqno |-> -1],
           ws |-> NoWs, cr |-> -1, crashReason |-> ""] : pd \in {"crashloop", "absent"}}
    \cup {[pod |-> "absent", gra |-> NoGrastate, ws |-> NoWs, cr |-> -1,
           crashReason |-> ""]}

InitTriageGalera ==
    /\ engine = "galera"
    /\ mode = "triage"
    /\ cfg = IdleCfg
    /\ \E ev \in [0..(TriageNodes - 1) -> GaleraRunningEvidence \cup GaleraDownEvidence] :
            data = galera_triageData(ev)
    /\ result = NoResult
    /\ pc = "Triage"
    /\ err = ""
    /\ k8s = IdleK8s
    /\ loc = IdleLoc
    /\ log = << >>
    /\ snapshots = << >>

\* Engine.Triage after a successful triageCollect
TriageGalera ==
    /\ mode = "triage" /\ engine = "galera" /\ pc = "Triage"
    /\ result' = galera_triageAnalyze(data)
    /\ pc' = "done"
    /\ UNCHANGED <<engine, mode, cfg, data, err, k8s, loc, log, snapshots>>

NextTriageGalera == TriageGalera

SpecTriageGalera == InitTriageGalera /\ [][NextTriageGalera]_vars

\* the nodes outside the primary component whose effective seqno is greater
\* than the best effective seqno of the primary component's members
C7_AheadOfPrimaryComponent ==
    {p \in DOMAIN data.effectiveSeqnos :
        /\ p \notin data.primaryMembers
        /\ data.primaryMembers # {}
        /\ \A pm \in data.primaryMembers :
              data.effectiveSeqnos[p].Value > data.effectiveSeqnos[pm].Value}

\* the cluster UUIDs observed in grastate.dat and in the wsrep status
C7_ObservedUUIDs ==
    ({data.grastateData[i].UUID : i \in 1..Len(data.grastateData)}
        \cup {data.wsrepMap[p].ClusterStateUUID : p \in DOMAIN data.wsrepMap})
    \ {"unknown", ZeroUUID, ""}

\* C7: for every Galera triage result, safeToHeal is false if and only if
\* some member outside the primary component has an effective seqno strictly
\* greater than bestPrimarySeqno, or more than one distinct cluster UUID is
\* observed across the members.
C7_UnsafeIffAheadOrUUIDs ==
    (engine = "galera" /\ mode = "triage" /\ result # NoResult) =>
        (~result.DataComparison.SafeToHeal <=>
            (C7_AheadOfPrimaryComponent # {} \/ Cardinality(C7_ObservedUUIDs) > 1))


\* C25: a running Galera node that reports connected=ON and ready=ON, whose
\* wsrep cluster status is not Primary and which is not ahead of the primary
\* component, is assessed with needsHeal=true.
C25_NonPrimaryNeedsHeal ==
    (engine = "galera" /\ mode = "triage" /\ result # NoResult) =>
        \A i \in 1..Len(result.Assessments) :
            LET p == result.Assessments[i].Pod IN
            ( /\ p \in data.runningPods \ data.crashloopPods
              /\ p \in DOMAIN data.wsrepMap
              /\ data.wsrepMap[p].Connected = "ON"
              /\ data.wsrepMap[p].Ready = "ON"
              /\ data.wsrepMap[p].ClusterStatus \notin {"Primary", ""}
              /\ p \notin C7_AheadOfPrimaryComponent )
            => result.Assessments[i].NeedsHeal
---------------------------------------------------------------------------
(* Specification Spec: one Repair run of either engine, on a cnpg cluster   *)
(* of RepairInstances instances or a galera cluster of RepairNodes nodes.    *)
(* Every member is in one of a few conditions,                               *)
(* which fix what triageCollect reads for it.                                *)
(*                                                                           *)
(* k8s.pods[p] is "ready" (Running, container ready), "notready" (Running,   *)
(* container not ready) or "absent"; k8s.pvc[p] says whether the data PVC    *)
(* exists; k8s.fenced is the cnpg.io/fencedInstances list, k8s.suspend the    *)
(* MariaDB spec.suspend, k8s.replicas the StatefulSet scale, k8s.helpers the *)
(* heal and helper pods that exist.                                          *)

CnpgPrimaryConditions == {"primary-ready", "primary-notready", "primary-absent"}
CnpgReplicaConditions == {"healthy", "lagging", "ahead", "gone"}
GaleraConditions == {"synced", "stale-crashloop", "ahead-down", "synced-nonprimary"}

\* what triageCollect reads for a cnpg instance in condition c
cnpg_evidence(c) ==
    CASE c = "primary-ready" ->
            [Source |-> "exec", Timeline |-> 2, CheckpointLocation |-> <<0, 2>>, CrashReason |-> ""]
      [] c \in {"primary-notready", "primary-absent"} ->
            [Source |-> "pvc_probe", Timeline |-> 2, CheckpointLocation |-> <<0, 2>>, CrashReason |-> ""]
      [] c = "healthy" ->
            [Source |-> "exec", Timeline |-> 2, CheckpointLocation |-> <<0, 2>>, CrashReason |-> ""]
      [] c = "lagging" ->
            [Source |-> "exec", Timeline |-> 2, CheckpointLocation |-> <<0, 1>>, CrashReason |-> ""]
      [] c = "ahead" ->
            [Source |-> "exec", Timeline |-> 2, CheckpointLocation |-> <<1, 1>>, CrashReason |-> ""]
      [] c = "gone" ->
            [Source |-> "none", Timeline |-> UnknownTimeline,
             CheckpointLocation |-> UnknownLSN, CrashReason |-> ""]

cnpg_podOf(c) ==
    CASE c \in {"primary-ready", "healthy", "lagging", "ahead"} -> "ready"
      [] c = "primary-notready" -> "notready"
      [] c \in {"primary-absent", "gone"} -> "absent"

\* what triageCollect reads for a galera node in condition c
galera_evidence(c) ==
    CASE c = "synced" ->
            [pod |-> "running", gra |-> [Source |-> "exec", UUID |-> "u1", Seqno |-> -1],
             ws |-> [LocalState |-> 4, Connected |-> "ON", Ready |-> "ON",
                     ClusterStatus |-> "Primary", ClusterStateUUID |-> "u1",
                     LastCommitted |-> 2],
             cr |-> -1, crashReason |-> ""]
      [] c = "synced-nonprimary" ->
            [pod |-> "running", gra |-> [Source |-> "exec", UUID |-> "u1", Seqno |-> -1],
             ws |-> [LocalState |-> 4, Connected |-> "ON", Ready |-> "ON",
                     ClusterStatus |-> "non-Primary", ClusterStateUUID |-> "u1",
                     LastCommitted |-> 2],
             cr |-> -1, crashReason |-> ""]
      [] c = "stale-crashloop" ->
            [pod |-> "crashloop",
             gra |-> [Source |-> "exec_crashloop", UUID |-> "u1", Seqno |-> 1],
             ws |-> NoWs, cr |-> -1, crashReason |-> ""]
      [] c = "ahead-down" ->
            [pod |-> "absent",
             gra |-> [Source |-> "pvc_probe", UUID |-> "u1", Seqno |-> 3],
             ws |-> NoWs, cr |-> -1, crashReason |-> ""]

galera_podOf(c) ==
    CASE c \in {"synced", "synced-nonprimary"} -> "ready"
      [] c = "stale-crashloop" -> "notready"
      [] c = "ahead-down" -> "absent"

\* the ordinals of the cluster's members: cnpg numbers its instances from 1,
\* the galera StatefulSet from 0
Members(eng) == IF eng = "cnpg" THEN 1..RepairInstances ELSE 0..(RepairNodes - 1)

RepairClusters(eng) ==
    IF eng = "cnpg"
    THEN {[cond |-> cnd, currentPrimary |-> cp] :
            cnd \in {f \in [Members(eng) -> CnpgPrimaryConditions \cup CnpgReplicaConditions] :
                        /\ f[1] \in CnpgPrimaryConditions
                        /\ \A i \in Members(eng) \ {1} : f[i] \in CnpgReplicaConditions},
            cp \in {NoPod, 1}}
    ELSE {[cond |-> cnd, currentPrimary |-> NoPod] :
            cnd \in [Members(eng) -> GaleraConditions]}

---------------------------------------------------------------------------
(* engine/cnpg/heal.go: the cnpg.io/fencedInstances annotation.  Its value  *)
(* is a JSON array of pod names; fenceInstance and unfenceInstance write it  *)
(* with json.Marshal and read it with parseFencedInstances, which returns    *)
(* the quoted strings in order.  Pod names hold no quote or backslash, so    *)
(* the model keeps the array as the sequence of its names.                   *)

\* the cluster has no cnpg.io/fencedInstances annotation
NoAnnotation == [present |-> FALSE, value |-> << >>]

\* parseFencedInstances: nil for a missing annotation, "" and "[]",
\* otherwise the names in the order written
parseFencedInstances(ann) == IF ann.present THEN ann.value ELSE << >>

\* the pods named in the annotation
Fenced(k) ==
    {parseFencedInstances(k.fenced)[i] : i \in DOMAIN parseFencedInstances(k.fenced)}

\* a fenceInstance that writes nothing
fenceInstance_noPatch(k, pod, ok) == k

\* fenceInstance: nothing is written when the pod is in the list already;
\* otherwise the list with the pod appended is patched in.  A failed Get or
\* Patch (ok = FALSE) leaves the annotation as it is.
fenceInstance(k, pod, ok) ==
    LET current == parseFencedInstances(k.fenced) IN
    IF pod \in Fenced(k) \/ ~ok THEN k
    ELSE [k EXCEPT !.fenced = [present |-> TRUE, value |-> Append(current, pod)]]

\* an unfenceInstance that writes the empty list instead of removing the
\* annotation
unfenceInstance_keepEmpty(k, pod, ok) ==
    LET remaining == SelectSeq(parseFencedInstances(k.fenced), LAMBDA f : f # pod) IN
    IF ~ok THEN k
    ELSE [k EXCEPT !.fenced = [present |-> TRUE, value |-> remaining]]

\* unfenceInstance: the list without the pod is patched in, and the
\* annotation is removed (patched to null) when nothing remains.  A failed
\* Get or Patch leaves the annotation as it is.
unfenceInstance(k, pod, ok) ==
    LET remaining == SelectSeq(parseFencedInstances(k.fenced), LAMBDA f : f # pod) IN
    IF ~ok THEN k
    ELSE IF remaining = << >> THEN [k EXCEPT !.fenced = NoAnnotation]
    ELSE [k EXCEPT !.fenced = [present |-> TRUE, value |-> remaining]]

\* the context of the run is not cancelled
NotCancelled == -1

InitLoc ==
    [targets |-> << >>, cur |-> NoPod, polls |-> 0, instanceNum |-> 0,
     fenceApplied |-> FALSE, healPodCreated |-> FALSE, acquired |-> FALSE,
     suspended |-> FALSE, scaledDown |-> FALSE, hasGaleraPVC |-> FALSE,
     everSuspended |-> FALSE, resumeAttempts |-> 0, rescueRuns |-> 0,
     escrow |-> "none", healStarted |-> {}, healed |-> << >>, skipped |-> << >>,
     healErr |-> << >>, healReturned |-> FALSE, postTriage |-> "none",
     start |-> 1, captures |-> << >>, expired |-> {},
     cancelledAt |-> NotCancelled, succeeded |-> FALSE]

Init ==
    /\ engine \in {"cnpg", "galera"}
    /\ mode = "repair"
    /\ cfg \in [Force : BOOLEAN, NoEscrow : BOOLEAN,
                 InstanceNumber : {NoTarget} \cup (0..RepairInstances)]
    /\ \E cl \in RepairClusters(engine) :
          k8s = [cond           |-> cl.cond,
                 currentPrimary |-> cl.currentPrimary,
                 pods    |-> [p \in Members(engine) |->
                                IF engine = "cnpg" THEN cnpg_podOf(cl.cond[p])
                                ELSE galera_podOf(cl.cond[p])],
                 pvc     |-> [p \in Members(engine) |-> cl.cond[p] # "gone"],
                 fenced  |-> NoAnnotation,
                 suspend |-> FALSE,
                 replicas |-> RepairNodes,
                 helpers |-> {}]
    /\ data = NoData
    /\ result = NoResult
    /\ pc = "Repair"
    /\ err = << >>
    /\ loc = InitLoc
    /\ log = << >>
    /\ snapshots = << >>

\* the pod named <cluster>-<InstanceNumber>
TargetPod == cfg.InstanceNumber

Targeted == cfg.InstanceNumber # NoTarget

\* Repair returns the error e
Fail(e) ==
    /\ err' = e
    /\ pc' = "done"

\* the probe pods runPVCProbes creates and deletes again
ProbeEvents(pods) ==
    LET sq == SortedSeq(pods)
    IN [i \in 1..(2 * Len(sq)) |->
          IF i <= Len(sq) THEN [op |-> "createProbe", pod |-> sq[i]]
          ELSE [op |-> "deleteProbe", pod |-> sq[i - Len(sq)]]]

\* Repair, Phase 1: Engine.Triage.  The pod list may fail; the galera
\* collection aborts when a storage PVC is missing.
RepairTriage ==
    /\ mode = "repair" /\ pc = "Repair"
    /\ \/ /\ Fail(<<"triage failed">>)
          /\ UNCHANGED <<data, result, log>>
       \/ /\ engine = "cnpg"
          /\ LET ev == [p \in Members(engine) |-> cnpg_evidence(k8s.cond[p])]
                 d  == cnpg_triageData(ev, k8s.currentPrimary,
                          {p \in Members(engine) : k8s.pods[p] = "absent"},
                          {p \in Members(engine) : k8s.pods[p] = "notready"},
                          IF k8s.currentPrimary # NoPod
                             /\ k8s.pods[k8s.currentPrimary] # "absent"
                          THEN {p \in Members(engine) : k8s.cond[p] = "healthy"}
                          ELSE {})
             IN /\ data' = d
                /\ result' = cnpg_triageAnalyze(d)
                /\ log' = log \o ProbeEvents({p \in Members(engine) :
                                                 ev[p].Source = "pvc_probe"})
          /\ pc' = "Gate"
          /\ err' = err
       \/ /\ engine = "galera"
          /\ LET ev == [p \in Members(engine) |-> galera_evidence(k8s.cond[p])]
                 d  == galera_triageData(ev)
             IN /\ data' = d
                /\ result' = galera_triageAnalyze(d)
                /\ log' = log \o ProbeEvents({p \in Members(engine) :
                                                 ev[p].gra.Source = "pvc_probe"})
          /\ pc' = "Gate"
          /\ err' = err
    /\ UNCHANGED <<engine, mode, cfg, k8s, loc, snapshots>>

\* the assessment of pod p in the triage result, as a set (empty: not found)
AssessmentsOf(p) ==
    {result.Assessments[i] : i \in {j \in 1..Len(result.Assessments) :
                                       result.Assessments[j].Pod = p}}

\* the readiness test reduced to the existence of the pod
cnpg_primaryReady_existsOnly(podState) == podState # "absent"

\* Phase == "Running" and ContainerStatuses[0].Ready of the primary pod
cnpg_primaryReady(podState) == podState = "ready"

\* cnpg Repair, Phase 2: a primary must be named, its pod must be readable,
\* Running and ready
CnpgGate ==
    /\ mode = "repair" /\ engine = "cnpg" /\ pc = "Gate"
    /\ \/ /\ k8s.currentPrimary = NoPod
          /\ Fail(<<"ABORT: No primary detected">>)
       \/ /\ k8s.currentPrimary # NoPod
          /\ Fail(<<"ABORT: Primary pod not found">>)
       \/ /\ k8s.currentPrimary # NoPod
          /\ k8s.pods[k8s.currentPrimary] # "absent"
          /\ ~cnpg_primaryReady(k8s.pods[k8s.currentPrimary])
          /\ Fail(<<"ABORT: Primary is not running and ready">>)
       \/ /\ k8s.currentPrimary # NoPod
          /\ k8s.pods[k8s.currentPrimary] # "absent"
          /\ cnpg_primaryReady(k8s.pods[k8s.currentPrimary])
          /\ pc' = "Escrow"
          /\ err' = err
    /\ UNCHANGED <<engine, mode, cfg, data, result, k8s, loc, log, snapshots>>

\* the donor test of the galera gate
anyRunning(assessments) ==
    \E i \in 1..Len(assessments) : assessments[i].IsRunning /\ assessments[i].IsReady

\* galera Repair, Phase 2: some assessment must be running and ready
GaleraGate ==
    /\ mode = "repair" /\ engine = "galera" /\ pc = "Gate"
    /\ IF anyRunning(result.Assessments)
       THEN pc' = "Escrow" /\ err' = err
       ELSE Fail(<<"ABORT: No healthy donor nodes found">>)
    /\ UNCHANGED <<engine, mode, cfg, data, result, k8s, loc, log, snapshots>>

\* Times are counted in half seconds.  Repair reads the clock once, at its
\* entry (loc.start); the n-th BackupDump of the run completes three ticks
\* after the one before it.
dumpCompletion(n) == loc.start + 3 * n

\* Format with a layout of whole seconds ("2006-01-02 15:04:05",
\* "20060102T150405Z"): the fraction of the second is dropped
FormatSeconds(t) == t \div 2

\* the --time argument with the clock read when the dump is stored
BackupStdin_time_now(jobTime, now) == FormatSeconds(now)

\* restic.BackupStdin: the --time argument of the snapshot
BackupStdin_time(jobTime, now) == FormatSeconds(jobTime)

DumpFilename == IF engine = "cnpg" THEN "pgdumpall.sql" ELSE "mysqldump.sql"

NoJob == "none"

\* the virtual path <ns>/<cluster>/<file> of the escrow backup; namespace and
\* cluster are the same for every snapshot of a run and are left out
escrowFilename == <<DumpFilename>>

\* the virtual path <ns>/<cluster>/<Instance>-<file> of a diverged capture
divergedFilename(a) == <<a.Instance, DumpFilename>>

\* the job tag of the diverged captures
jobID(start) == FormatSeconds(start)

\* BackupDump succeeded: the snapshot it stored.  The tags are engine,
\* cluster, namespace, type and the extra tags; the donor is not among them.
BackupDump(backupType, donor, stdinFilename, jobTime, job, now) ==
    [type |-> backupType, path |-> stdinFilename,
     time |-> BackupStdin_time(jobTime, now), job |-> job]

\* Repair, Phase 2.5: the escrow backup (BackupDump of type "backup") from
\* the primary (cnpg) or from PrimaryMembers[0] (galera, any member of a Go
\* map's iteration order); galera skips it when PrimaryMembers is empty
Escrow ==
    /\ mode = "repair" /\ pc = "Escrow"
    /\ \/ /\ cfg.NoEscrow
          /\ loc' = [loc EXCEPT !.escrow = "disabled"]
          /\ pc' = "Branch"
          /\ UNCHANGED <<err, snapshots>>
       \/ /\ ~cfg.NoEscrow
          /\ loc' = loc
          /\ Fail(<<"repair requires --backups-path and RESTIC_PASSWORD">>)
          /\ UNCHANGED snapshots
       \/ /\ ~cfg.NoEscrow
          /\ engine = "galera"
          /\ result.DataComparison.PrimaryMembers = {}
          /\ loc' = [loc EXCEPT !.escrow = "skipped"]
          /\ pc' = "Diverged"
          /\ UNCHANGED <<err, snapshots>>
       \/ /\ ~cfg.NoEscrow
          /\ engine = "galera" => result.DataComparison.PrimaryMembers # {}
          /\ \/ /\ loc' = [loc EXCEPT !.escrow = "failed"]
                /\ Fail(<<"pre-repair backup failed">>)
                /\ UNCHANGED snapshots
             \/ /\ \E donor \in IF engine = "cnpg" THEN {k8s.currentPrimary}
                                  ELSE result.DataComparison.PrimaryMembers :
                      snapshots' = Append(snapshots,
                          BackupDump("backup", donor, escrowFilename, loc.start,
                                     NoJob, dumpCompletion(1)))
                /\ loc' = [loc EXCEPT !.escrow = "done"]
                /\ pc' = "Diverged"
                /\ err' = err
    /\ UNCHANGED <<engine, mode, cfg, data, result, k8s, log>>

\* the pods of seq sq that are in the set S, in sq's order
RECURSIVE SelectPods(_, _)
SelectPods(sq, S) ==
    IF sq = << >> THEN << >>
    ELSE (IF Head(sq) \in S THEN <<Head(sq)>> ELSE << >>) \o SelectPods(Tail(sq), S)

AssessedPods == [i \in 1..Len(result.Assessments) |-> result.Assessments[i].Pod]

\* Repair, Phase 2.6: on split-brain, a "diverged" BackupDump of every
\* assessment that is running and ready; a failed one is logged and skipped
Diverged ==
    /\ mode = "repair" /\ pc = "Diverged"
    /\ IF ~result.DataComparison.SafeToHeal /\ ~cfg.NoEscrow
       THEN LET eligible == {result.Assessments[i].Pod : i \in
                               {j \in 1..Len(result.Assessments) :
                                  /\ result.Assessments[j].IsRunning
                                  /\ result.Assessments[j].IsReady}}
                tried == SelectPods(AssessedPods, eligible)
                before == IF loc.escrow = "skipped" THEN 0 ELSE 1
                dump(i) == LET a == CHOOSE x \in AssessmentsOf(tried[i]) : TRUE
                           IN BackupDump("diverged", a.Pod, divergedFilename(a),
                                         loc.start, jobID(loc.start),
                                         dumpCompletion(before + i))
                RECURSIVE stored(_, _)
                stored(i, ok) ==
                    IF i > Len(tried) THEN << >>
                    ELSE (IF tried[i] \in ok THEN <<dump(i)>> ELSE << >>)
                         \o stored(i + 1, ok)
            IN /\ \E ok \in SUBSET eligible :
                    snapshots' = snapshots \o stored(1, ok)
               /\ loc' = [loc EXCEPT !.captures =
                             [i \in 1..Len(tried) |->
                                 LET a == CHOOSE x \in AssessmentsOf(tried[i]) : TRUE
                                 IN [pod |-> a.Pod, path |-> divergedFilename(a)]]]
       ELSE snapshots' = snapshots /\ loc' = loc
    /\ pc' = "Branch"
    /\ UNCHANGED <<engine, mode, cfg, data, result, err, k8s, log>>

\* the first step of a heal of this engine
HealEntry == IF engine = "cnpg" THEN "Fence" ELSE "Suspend"

\* the locals of healInstance / healNode at entry
BeginHeal(l, pod, rest, instanceNum) ==
    [l EXCEPT !.cur = pod, !.targets = rest, !.polls = 0,
              !.instanceNum = instanceNum,
              !.fenceApplied = FALSE, !.healPodCreated = FALSE, !.acquired = FALSE,
              !.suspended = FALSE, !.scaledDown = FALSE, !.hasGaleraPVC = FALSE,
              !.everSuspended = FALSE, !.resumeAttempts = 0, !.rescueRuns = 0,
              !.healStarted = @ \cup {pod},
              !.healErr = << >>, !.healReturned = FALSE, !.expired = {},
              !.cancelledAt = NotCancelled, !.succeeded = FALSE]

\* the primary test with an override by --force
repairTargeted_primaryStop_unlessForce(targetPod, primary) ==
    engine = "cnpg" /\ targetPod = primary /\ ~cfg.Force

\* cnpg repairTargeted: "Safety gate: target is primary -> HARD STOP"
repairTargeted_primaryStop(targetPod, primary) ==
    engine = "cnpg" /\ targetPod = primary

\* the split-brain test with the force flag inverted
repairTargeted_splitBrainAbort_inverted(comparison) ==
    ~comparison.SafeToHeal /\ cfg.Force

\* repairTargeted: "Safety gate: split-brain -> fail unless force"
repairTargeted_splitBrainAbort(comparison) ==
    ~comparison.SafeToHeal /\ ~cfg.Force

\* Repair, Phase 3 with an instance number: repairTargeted up to the heal
RepairTargeted ==
    /\ mode = "repair" /\ pc = "Branch" /\ Targeted
    /\ LET found == AssessmentsOf(TargetPod) # {}
           a == CHOOSE x \in AssessmentsOf(TargetPod) : TRUE
       IN \/ /\ repairTargeted_primaryStop(TargetPod, k8s.currentPrimary)
             /\ Fail(<<"HARD STOP: target is the PRIMARY">>)
             /\ loc' = loc
          \/ /\ ~repairTargeted_primaryStop(TargetPod, k8s.currentPrimary)
             /\ ~found
             /\ Fail(<<"ABORT: target not found in instance assessments">>)
             /\ loc' = loc
          \/ /\ ~repairTargeted_primaryStop(TargetPod, k8s.currentPrimary)
             /\ found
             /\ repairTargeted_splitBrainAbort(result.DataComparison)
             /\ Fail(<<"ABORT: Split-brain detected">>)
             /\ loc' = loc
          \/ /\ ~repairTargeted_primaryStop(TargetPod, k8s.currentPrimary)
             /\ found
             /\ ~repairTargeted_splitBrainAbort(result.DataComparison)
             /\ \/ /\ ~a.NeedsHeal /\ ~cfg.Force
                   /\ loc' = [loc EXCEPT !.skipped = Append(@, TargetPod)]
                   /\ pc' = "done"
                   /\ err' = err
                \/ /\ a.NeedsHeal \/ cfg.Force
                   /\ \/ /\ Fail(<<"PVC not found">>)
                         /\ loc' = loc
                      \/ /\ k8s.pvc[TargetPod]
                         /\ loc' = BeginHeal(loc, TargetPod, << >>, cfg.InstanceNumber)
                         /\ pc' = HealEntry
                         /\ err' = err
    /\ UNCHANGED <<engine, mode, cfg, data, result, k8s, log, snapshots>>

\* the split-brain test with an override by --force
repairUntargeted_hardStop_unlessForce(comparison) ==
    ~comparison.SafeToHeal /\ ~cfg.Force

\* repairUntargeted: "Safety gate: split-brain -> HARD STOP"
repairUntargeted_hardStop(comparison) == ~comparison.SafeToHeal

\* Repair, Phase 3 without an instance number: repairUntargeted up to the
\* first heal.  The targets are the assessments that need a heal; their
\* Instance field is the zero value.
RepairUntargeted ==
    /\ mode = "repair" /\ pc = "Branch" /\ ~Targeted
    /\ LET targets == SelectPods(AssessedPods,
                          {result.Assessments[i].Pod : i \in
                              {j \in 1..Len(result.Assessments) :
                                  result.Assessments[j].NeedsHeal}})
           skipped == SelectPods(AssessedPods,
                          {result.Assessments[i].Pod : i \in
                              {j \in 1..Len(result.Assessments) :
                                  ~result.Assessments[j].NeedsHeal}})
       IN IF repairUntargeted_hardStop(result.DataComparison)
          THEN Fail(<<"HARD STOP: Split-brain detected">>) /\ loc' = loc
          ELSE IF targets = << >>
          THEN /\ loc' = [loc EXCEPT !.skipped = skipped]
               /\ pc' = "done"
               /\ err' = err
          ELSE /\ loc' = BeginHeal([loc EXCEPT !.skipped = skipped],
                                   Head(targets), Tail(targets), 0)
               /\ pc' = HealEntry
               /\ err' = err
    /\ UNCHANGED <<engine, mode, cfg, data, result, k8s, log, snapshots>>

---------------------------------------------------------------------------
(* engine/cnpg/heal.go: healInstance *)

HealPod(pod) == <<"heal", pod>>

\* a wait of the heal ran out of polls before its condition was met
waitExpired(l, wait) == [l EXCEPT !.expired = @ \cup {wait}]

\* a return that loses the error
HealReturns_nil(l, e) ==
    /\ loc' = [l EXCEPT !.healErr = << >>, !.healReturned = TRUE]
    /\ pc' = "HealReturned"

\* healInstance / healNode returns the error e (<< >> is nil)
HealReturns(l, e) ==
    /\ loc' = [l EXCEPT !.healErr = e, !.healReturned = TRUE]
    /\ pc' = "HealReturned"

\* cleanup(): delete the heal pod if it was created (the error of the Delete
\* is dropped, so the pod may stay); the fence is left in place
\* a cleanup() that lifts the fence as well
cnpg_cleanup_unfence(l, k, removed) ==
    [k EXCEPT !.helpers = @ \ {HealPod(l.cur)}, !.fenced = NoAnnotation]

cnpg_cleanup(l, k, removed) ==
    IF l.healPodCreated /\ removed
    THEN [k EXCEPT !.helpers = @ \ {HealPod(l.cur)}]
    ELSE k

\* cleanup() without the Delete of the heal pod
cnpg_cleanupLog_noDelete(l, lg) == lg

cnpg_cleanupLog(l, lg) ==
    IF l.healPodCreated THEN Append(lg, [op |-> "deleteHealPod", pod |-> l.cur]) ELSE lg

\* STEP 1: fenceInstance; on error healInstance returns without cleanup
CnpgFence ==
    /\ mode = "repair" /\ engine = "cnpg" /\ pc = "Fence"
    /\ \/ /\ HealReturns(loc, <<"failed to fence">>)
          /\ UNCHANGED <<k8s, log>>
       \/ /\ loc.cur \in Fenced(k8s)
          /\ loc' = [loc EXCEPT !.fenceApplied = TRUE]
          /\ pc' = "CreateHealPod"
          /\ UNCHANGED <<k8s, log>>
       \/ /\ loc.cur \notin Fenced(k8s)
          /\ k8s' = fenceInstance(k8s, loc.cur, TRUE)
          /\ log' = Append(log, [op |-> "fence", pod |-> loc.cur])
          /\ loc' = [loc EXCEPT !.fenceApplied = TRUE]
          /\ pc' = "CreateHealPod"
    /\ UNCHANGED <<engine, mode, cfg, data, result, err, snapshots>>

\* STEP 2: create the heal pod
CnpgCreateHealPod ==
    /\ mode = "repair" /\ engine = "cnpg" /\ pc = "CreateHealPod"
    /\ \/ /\ HealReturns(loc, <<"failed to create heal pod">>)
          /\ UNCHANGED <<k8s, log>>
       \/ /\ k8s' = [k8s EXCEPT !.helpers = @ \cup {HealPod(loc.cur)}]
          /\ log' = Append(log, [op |-> "createHealPod", pod |-> loc.cur])
          /\ loc' = [loc EXCEPT !.healPodCreated = TRUE, !.polls = 0]
          /\ pc' = "DeleteRace"
    /\ UNCHANGED <<engine, mode, cfg, data, result, err, snapshots>>

\* ctx.Done() is closed: every call of the API client that takes the
\* context returns an error and has no effect
ctxCancelled(l) == l.cancelledAt # NotCancelled

\* the caller of Repair cancels the context while the loop of STEP 3 runs
Cancel ==
    /\ mode = "repair" /\ engine = "cnpg" /\ pc = "DeleteRace"
    /\ ~ctxCancelled(loc)
    /\ loc.polls < PollIterations
    /\ loc' = [loc EXCEPT !.cancelledAt = loc.polls]
    /\ UNCHANGED <<engine, mode, cfg, data, result, err, k8s, log, snapshots, pc>>

\* the phases the Get of the heal pod can show: "Pending" when it fails
healPodPhases(l) ==
    IF ctxCancelled(l) THEN {"Pending"}
    ELSE {"Pending", "Running", "Succeeded", "Failed"}

\* STEP 3: one pass of the loop that deletes the target pod until the heal
\* pod has the PVC; an unreadable heal pod counts as Pending.  The loop
\* reads the context nowhere: it ends with the heal pod's phase or with
\* the last poll.
CnpgDeleteRace ==
    /\ mode = "repair" /\ engine = "cnpg" /\ pc = "DeleteRace"
    /\ IF loc.polls >= PollIterations
       THEN \E removed \in IF ctxCancelled(loc) THEN {FALSE} ELSE BOOLEAN :
              /\ k8s' = cnpg_cleanup(loc, k8s, removed)
              /\ log' = cnpg_cleanupLog(loc, log)
              /\ HealReturns(waitExpired(loc, "acquire"),
                             <<"timeout: heal pod never acquired PVC">>)
       ELSE \E phase \in healPodPhases(loc) :
              \/ /\ phase \in {"Running", "Succeeded"}
                 /\ loc' = [loc EXCEPT !.polls = 0, !.acquired = TRUE]
                 /\ pc' = "WaitHeal"
                 /\ UNCHANGED <<k8s, log>>
              \/ /\ phase = "Failed"
                 /\ \E removed \in BOOLEAN :
                       k8s' = cnpg_cleanup(loc, k8s, removed)
                 /\ log' = cnpg_cleanupLog(loc, log)
                 /\ HealReturns(loc, <<"heal pod failed before acquiring PVC">>)
              \/ /\ phase = "Pending"
                 /\ \/ /\ ~ctxCancelled(loc)
                       /\ k8s.pods[loc.cur] # "absent"
                       /\ k8s' = [k8s EXCEPT !.pods[loc.cur] = "absent"]
                       /\ log' = Append(log, [op |-> "deletePod", pod |-> loc.cur])
                    \/ UNCHANGED <<k8s, log>>
                 /\ loc' = [loc EXCEPT !.polls = @ + 1]
                 /\ pc' = pc
    /\ UNCHANGED <<engine, mode, cfg, data, result, err, snapshots>>

\* STEP 4: one pass of the loop that waits for pg_basebackup to finish
CnpgWaitHeal ==
    /\ mode = "repair" /\ engine = "cnpg" /\ pc = "WaitHeal"
    /\ IF loc.polls >= PollIterations
       THEN \E removed \in BOOLEAN :
              /\ k8s' = cnpg_cleanup(loc, k8s, removed)
              /\ log' = cnpg_cleanupLog(loc, log)
              /\ HealReturns(waitExpired(loc, "heal-pod"), <<"heal pod timed out">>)
       ELSE \E phase \in {"Running", "Succeeded", "Failed"} :
              \/ /\ phase = "Running"
                 /\ loc' = [loc EXCEPT !.polls = @ + 1]
                 /\ pc' = pc
                 /\ UNCHANGED <<k8s, log>>
              \/ /\ phase = "Succeeded"
                 /\ loc' = [loc EXCEPT !.polls = 0, !.succeeded = TRUE]
                 /\ pc' = "Unfence"
                 /\ UNCHANGED <<k8s, log>>
              \/ /\ phase = "Failed"
                 /\ \E removed \in BOOLEAN :
                       k8s' = cnpg_cleanup(loc, k8s, removed)
                 /\ log' = cnpg_cleanupLog(loc, log)
                 /\ HealReturns(loc, <<"heal pod FAILED">>)
    /\ UNCHANGED <<engine, mode, cfg, data, result, err, snapshots>>

\* the rest of healInstance: delete the heal pod, STEP 5 unfence (an error is
\* only logged), delete the target pod, wait for it to be ready (a timeout
\* is only logged), return nil
CnpgUnfence ==
    /\ mode = "repair" /\ engine = "cnpg" /\ pc = "Unfence"
    /\ \E removed \in BOOLEAN, unfenced \in BOOLEAN, ready \in BOOLEAN :
          LET k1 == IF removed THEN [k8s EXCEPT !.helpers = @ \ {HealPod(loc.cur)}] ELSE k8s
              k2 == unfenceInstance(k1, loc.cur, unfenced)
              present == k2.pods[loc.cur] # "absent"
              k3 == [k2 EXCEPT !.pods[loc.cur] = IF ready THEN "ready" ELSE "notready"]
          IN /\ k8s' = k3
             /\ log' = log \o <<[op |-> "deleteHealPod", pod |-> loc.cur]>>
                           \o (IF unfenced THEN <<[op |-> "unfence", pod |-> loc.cur]>>
                               ELSE << >>)
                           \o (IF present THEN <<[op |-> "deletePod", pod |-> loc.cur]>>
                               ELSE << >>)
             /\ HealReturns([(IF ready THEN loc ELSE waitExpired(loc, "ready"))
                                EXCEPT !.healPodCreated = FALSE, !.fenceApplied = FALSE],
                             << >>)
    /\ UNCHANGED <<engine, mode, cfg, data, result, err, snapshots>>

---------------------------------------------------------------------------
(* galera heal.go: healNode *)

StorageHelper(pod) == <<"heal-storage", pod>>
GaleraHelper(pod) == <<"heal-galera", pod>>

\* the scale healNode scales the StatefulSet down to: the target's ordinal
\* when it is the last one, otherwise 0
scaleTarget(instanceNum) ==
    IF instanceNum = RepairNodes - 1 THEN instanceNum ELSE 0

\* scaleStatefulSet succeeded with n replicas: the pods of ordinal n and up
\* are gone, the others are as their condition has them
scaleStatefulSet(k, n) ==
    [k EXCEPT !.replicas = n,
              !.pods = [p \in DOMAIN k.pods |->
                          IF p >= n THEN "absent" ELSE galera_podOf(k.cond[p])]]

\* resumeCR: a successful patch sets spec.suspend=false
resumeCR(k, ok) == IF ok THEN [k EXCEPT !.suspend = FALSE] ELSE k

\* rescue(): delete both helper pods, scale back if scaled down, resume the
\* CR if suspended; the errors of all four calls are dropped
galera_rescue(l, k, removed, scaleOK, resumeOK) ==
    LET k1 == IF removed
              THEN [k EXCEPT !.helpers = @ \ {StorageHelper(l.cur), GaleraHelper(l.cur)}]
              ELSE k
        k2 == IF l.scaledDown /\ scaleOK THEN scaleStatefulSet(k1, RepairNodes) ELSE k1
    IN IF l.suspended THEN resumeCR(k2, resumeOK) ELSE k2

\* a rescue() that resumes the CR before it restores the scale
galera_rescueLog_resumeFirst(l, lg, scaleOK, resumeOK) ==
    lg \o <<[op |-> "deleteHelpers", pod |-> l.cur]>>
       \o (IF l.suspended /\ resumeOK
           THEN <<[op |-> "resume", pod |-> l.cur]>> ELSE << >>)
       \o (IF l.scaledDown /\ scaleOK
           THEN <<[op |-> "scale", pod |-> RepairNodes]>> ELSE << >>)

\* the calls of rescue() in their order: the Deletes of the helper pods
\* (always issued), the scale back and the resume (logged when they succeed)
galera_rescueLog(l, lg, scaleOK, resumeOK) ==
    lg \o <<[op |-> "deleteHelpers", pod |-> l.cur]>>
       \o (IF l.scaledDown /\ scaleOK
           THEN <<[op |-> "scale", pod |-> RepairNodes]>> ELSE << >>)
       \o (IF l.suspended /\ resumeOK
           THEN <<[op |-> "resume", pod |-> l.cur]>> ELSE << >>)

galera_rescueLoc(l) ==
    [l EXCEPT !.rescueRuns = @ + 1,
              !.resumeAttempts = IF l.suspended THEN @ + 1 ELSE @]

\* healNode fails with e after the CR was suspended: rescue(), return e
RescueAndReturn(l, e) ==
    \E removed \in BOOLEAN, scaleOK \in BOOLEAN, resumeOK \in BOOLEAN :
        /\ k8s' = galera_rescue(l, k8s, removed, scaleOK, resumeOK)
        /\ log' = galera_rescueLog(l, log, scaleOK, resumeOK)
        /\ HealReturns(galera_rescueLoc(l), e)

\* the galera PVC lookup and STEP 1: suspendCR; on error healNode returns
\* without rescue
GaleraSuspend ==
    /\ mode = "repair" /\ engine = "galera" /\ pc = "Suspend"
    /\ \/ /\ HealReturns(loc, <<"failed to suspend CR">>)
          /\ UNCHANGED <<k8s, log>>
       \/ /\ \E has \in BOOLEAN :
                loc' = [loc EXCEPT !.hasGaleraPVC = has, !.suspended = TRUE,
                                   !.everSuspended = TRUE]
          /\ k8s' = [k8s EXCEPT !.suspend = TRUE]
          /\ log' = Append(log, [op |-> "suspend", pod |-> loc.cur])
          /\ pc' = "ScaleDown"
    /\ UNCHANGED <<engine, mode, cfg, data, result, err, snapshots>>

\* STEP 2: scale down and wait for the target pod to terminate; when the
\* pod is still there after the last poll, healNode goes on to STEP 3
GaleraScaleDown ==
    /\ mode = "repair" /\ engine = "galera" /\ pc = "ScaleDown"
    /\ \/ RescueAndReturn(loc, <<"failed to scale StatefulSet">>)
       \/ /\ log' = Append(log, [op |-> "scale", pod |-> scaleTarget(loc.instanceNum)])
          /\ \/ /\ k8s' = scaleStatefulSet(k8s, scaleTarget(loc.instanceNum))
                /\ loc' = [loc EXCEPT !.scaledDown = TRUE]
             \/ /\ k8s.pods[loc.cur] # "absent"
                /\ k8s' = [scaleStatefulSet(k8s, scaleTarget(loc.instanceNum))
                             EXCEPT !.pods[loc.cur] = k8s.pods[loc.cur]]
                /\ loc' = [waitExpired(loc, "terminate") EXCEPT !.scaledDown = TRUE]
          /\ pc' = "StorageHelper"
    /\ UNCHANGED <<engine, mode, cfg, data, result, err, snapshots>>

\* runHelperPod(name): "create-failed", or the pod is created and ends
\* "Succeeded", "Failed" or "timeout", after which it is deleted (the error
\* of the Delete is dropped, so the pod may stay)
runHelperPod(k, name, outcome, removed) ==
    IF outcome = "create-failed" \/ removed THEN k
    ELSE [k EXCEPT !.helpers = @ \cup {name}]

runHelperPodLog(lg, kind, pod, outcome) ==
    IF outcome = "create-failed" THEN lg
    ELSE lg \o <<[op |-> "createHelper", pod |-> pod], [op |-> "deleteHelper", pod |-> pod]>>

\* STEP 3: the storage helper wipes grastate.dat and galera.cache
GaleraStorageHelper ==
    /\ mode = "repair" /\ engine = "galera" /\ pc = "StorageHelper"
    /\ \/ RescueAndReturn(loc, <<"storage helper failed", "failed to create helper pod">>)
       \/ \E outcome \in {"Failed", "timeout"}, removed \in BOOLEAN,
             scaleOK \in BOOLEAN, resumeOK \in BOOLEAN :
             LET k1 == runHelperPod(k8s, StorageHelper(loc.cur), outcome, removed)
             IN /\ k8s' = galera_rescue(loc, k1, removed, scaleOK, resumeOK)
                /\ log' = galera_rescueLog(loc,
                              runHelperPodLog(log, "storage", loc.cur, outcome),
                              scaleOK, resumeOK)
                /\ HealReturns(galera_rescueLoc(IF outcome = "timeout"
                                                 THEN waitExpired(loc, "helper")
                                                 ELSE loc),
                                <<"storage helper failed", outcome>>)
       \/ \E removed \in BOOLEAN :
             /\ k8s' = runHelperPod(k8s, StorageHelper(loc.cur), "Succeeded", removed)
             /\ log' = runHelperPodLog(log, "storage", loc.cur, "Succeeded")
             /\ loc' = loc
             /\ pc' = IF loc.hasGaleraPVC THEN "GaleraHelper" ELSE "ScaleUp"
    /\ UNCHANGED <<engine, mode, cfg, data, result, err, snapshots>>

\* STEP 4: the galera helper removes the bootstrap config
GaleraConfigHelper ==
    /\ mode = "repair" /\ engine = "galera" /\ pc = "GaleraHelper"
    /\ \/ RescueAndReturn(loc, <<"galera config helper failed", "failed to create helper pod">>)
       \/ \E outcome \in {"Failed", "timeout"}, removed \in BOOLEAN,
             scaleOK \in BOOLEAN, resumeOK \in BOOLEAN :
             LET k1 == runHelperPod(k8s, GaleraHelper(loc.cur), outcome, removed)
             IN /\ k8s' = galera_rescue(loc, k1, removed, scaleOK, resumeOK)
                /\ log' = galera_rescueLog(loc,
                              runHelperPodLog(log, "galera", loc.cur, outcome),
                              scaleOK, resumeOK)
                /\ HealReturns(galera_rescueLoc(IF outcome = "timeout"
                                                 THEN waitExpired(loc, "helper")
                                                 ELSE loc),
                                <<"galera config helper failed", outcome>>)
       \/ \E removed \in BOOLEAN :
             /\ k8s' = runHelperPod(k8s, GaleraHelper(loc.cur), "Succeeded", removed)
             /\ log' = runHelperPodLog(log, "galera", loc.cur, "Succeeded")
             /\ loc' = loc
             /\ pc' = "ScaleUp"
    /\ UNCHANGED <<engine, mode, cfg, data, result, err, snapshots>>

\* STEP 5, first half: scale back up
GaleraScaleUp ==
    /\ mode = "repair" /\ engine = "galera" /\ pc = "ScaleUp"
    /\ \/ RescueAndReturn(loc, <<"failed to scale StatefulSet back up">>)
       \/ /\ k8s' = scaleStatefulSet(k8s, RepairNodes)
          /\ log' = Append(log, [op |-> "scale", pod |-> RepairNodes])
          /\ loc' = [loc EXCEPT !.scaledDown = FALSE]
          /\ pc' = "Resume"
    /\ UNCHANGED <<engine, mode, cfg, data, result, err, snapshots>>

\* STEP 5, second half: resumeCR, then wait for the target to be ready (a
\* timeout is only logged) and return nil.  When resumeCR fails, rescue()
\* runs with suspended still true and calls resumeCR again.
GaleraResume ==
    /\ mode = "repair" /\ engine = "galera" /\ pc = "Resume"
    /\ \/ RescueAndReturn([loc EXCEPT !.resumeAttempts = @ + 1], <<"failed to resume CR">>)
       \/ \E ready \in BOOLEAN :
             /\ k8s' = [resumeCR(k8s, TRUE) EXCEPT
                          !.pods[loc.cur] = IF ready THEN "ready" ELSE "notready"]
             /\ log' = Append(log, [op |-> "resume", pod |-> loc.cur])
             /\ HealReturns([(IF ready THEN loc ELSE waitExpired(loc, "ready"))
                                EXCEPT !.suspended = FALSE, !.resumeAttempts = @ + 1],
                             << >>)
    /\ UNCHANGED <<engine, mode, cfg, data, result, err, snapshots>>

---------------------------------------------------------------------------
(* repairTargeted / repairUntargeted after a heal has returned *)

\* a loop over the targets that goes on to the next target after a failed
\* heal
AfterHeal_continueOnError ==
    /\ mode = "repair" /\ pc = "HealReturned"
    /\ IF loc.healErr # << >> /\ (Targeted \/ loc.targets = << >>)
       THEN /\ err' = IF Targeted THEN loc.healErr
                                  ELSE <<"heal failed for">> \o loc.healErr
            /\ pc' = "done"
            /\ loc' = loc
       ELSE /\ err' = err
            /\ IF Targeted
               THEN /\ loc' = [loc EXCEPT !.healed = Append(@, loc.cur)]
                    /\ pc' = "done"
               ELSE IF loc.targets # << >>
               THEN /\ loc' = BeginHeal(loc, Head(loc.targets), Tail(loc.targets), 0)
                    /\ pc' = HealEntry
               ELSE /\ loc' = [loc EXCEPT !.healed = Append(@, loc.cur)]
                    /\ pc' = "PostTriage"
    /\ UNCHANGED <<engine, mode, cfg, data, result, k8s, log, snapshots>>

\* the loop "Heal each sequentially" after healInstance / healNode returned:
\* an error ends Repair, otherwise the pod is appended to HealedInstances
\* and the next target's heal begins
AfterHeal ==
    /\ mode = "repair" /\ pc = "HealReturned"
    /\ IF loc.healErr # << >>
       THEN /\ err' = IF Targeted THEN loc.healErr
                                  ELSE <<"heal failed for">> \o loc.healErr
            /\ pc' = "done"
            /\ loc' = loc
       ELSE /\ err' = err
            /\ IF Targeted
               THEN /\ loc' = [loc EXCEPT !.healed = Append(@, loc.cur)]
                    /\ pc' = "done"
               ELSE IF loc.targets # << >>
               THEN /\ loc' = BeginHeal([loc EXCEPT !.healed = Append(@, loc.cur)],
                                        Head(loc.targets), Tail(loc.targets), 0)
                    /\ pc' = HealEntry
               ELSE /\ loc' = [loc EXCEPT !.healed = Append(@, loc.cur)]
                    /\ pc' = "PostTriage"
    /\ UNCHANGED <<engine, mode, cfg, data, result, k8s, log, snapshots>>

\* repairUntargeted, post-repair: wait for all pods, triage again (its error
\* is dropped and PostTriageResult is then nil)
PostTriage ==
    /\ mode = "repair" /\ pc = "PostTriage"
    /\ \E outcome \in {"result", "nil"} : loc' = [loc EXCEPT !.postTriage = outcome]
    /\ pc' = "done"
    /\ UNCHANGED <<engine, mode, cfg, data, result, err, k8s, log, snapshots>>

---------------------------------------------------------------------------
(* The process is interrupted (SIGINT/SIGTERM) inside a heal.  No signal     *)
(* handler is installed and the context is never cancelled, so the process   *)
(* ends where it is.                                                         *)

HealSteps ==
    {"Fence", "CreateHealPod", "DeleteRace", "WaitHeal", "Unfence",
     "Suspend", "ScaleDown", "StorageHelper", "GaleraHelper", "ScaleUp", "Resume"}

Interrupt ==
    /\ mode = "repair" /\ pc \in HealSteps
    /\ pc' = "killed"
    /\ UNCHANGED <<engine, mode, cfg, data, result, err, k8s, loc, log, snapshots>>

Next ==
    \/ RepairTriage
    \/ CnpgGate
    \/ GaleraGate
    \/ Escrow
    \/ Diverged
    \/ RepairTargeted
    \/ RepairUntargeted
    \/ CnpgFence
    \/ CnpgCreateHealPod
    \/ CnpgDeleteRace
    \/ Cancel
    \/ CnpgWaitHeal
    \/ CnpgUnfence
    \/ GaleraSuspend
    \/ GaleraScaleDown
    \/ GaleraStorageHelper
    \/ GaleraConfigHelper
    \/ GaleraScaleUp
    \/ GaleraResume
    \/ AfterHeal
    \/ PostTriage
    \/ Interrupt

Spec == Init /\ [][Next]_vars

---------------------------------------------------------------------------
(* Properties of Repair *)

\* the platform operations of the triage's PVC probes
ProbeOps == {"createProbe", "deleteProbe"}

\* the platform operations that are steps of a heal
HealStepOps == {"fence", "suspend", "scale", "createHealPod", "createHelper"}

OpsDone == {log[i].op : i \in 1..Len(log)}

\* nothing but the triage's probes has touched the cluster
NoMutation == k8s.fenced = NoAnnotation /\ ~k8s.suspend /\ OpsDone \subseteq ProbeOps

\* no heal was entered and no step of one was made
NoHealStep ==
    /\ loc.healStarted = {}
    /\ pc \notin HealSteps \cup {"HealReturned", "PostTriage", "killed"}
    /\ OpsDone \cap HealStepOps = {}

Triaged == mode = "repair" /\ result # NoResult

Unsafe == Triaged /\ ~result.DataComparison.SafeToHeal

\* C1: a repair without an instance number whose triage reports that it is
\* not safe to heal returns an error and performs no heal action, on both
\* engines and whatever the value of force.
C1_UntargetedUnsafeHardStop ==
    (Unsafe /\ ~Targeted) =>
        /\ NoHealStep
        /\ NoMutation
        /\ pc = "done" => err # << >>

C1_Witness ==
    /\ Unsafe /\ ~Targeted /\ cfg.Force
    /\ pc = "done"
    /\ err = <<"HARD STOP: Split-brain detected">>
    /\ NoHealStep

C2_Case ==
    mode = "repair" /\ engine = "cnpg" /\ Targeted /\ TargetPod = k8s.currentPrimary

\* the errors of Repair whose text names the pod as the primary
C2_NamesPrimary ==
    {<<"HARD STOP: target is the PRIMARY">>,
     <<"ABORT: Primary pod not found">>,
     <<"ABORT: Primary is not running and ready">>}

\* C2 as stated: a targeted cnpg repair whose target is the current primary
\* returns an error naming the pod as the primary, whatever force is, and
\* makes no fence or mutation.
C2_PrimaryTargetNamed ==
    (C2_Case /\ pc = "done") => (err \in C2_NamesPrimary /\ NoMutation)

\* C2, amended: a targeted cnpg repair whose target is the current primary
\* returns an error, whatever force is, and makes no fence or mutation; the
\* error names the pod as the primary once triage and the escrow phase have
\* succeeded, and is the error of triage or of the escrow phase otherwise.
C2_PrimaryTargetStops ==
    C2_Case =>
        /\ NoHealStep
        /\ NoMutation
        /\ pc = "done" => err # << >>
        /\ (pc = "done" /\ Triaged /\ loc.escrow \in {"done", "disabled"})
              => err \in C2_NamesPrimary
        /\ (pc = "done" /\ err \notin C2_NamesPrimary)
              => err \in {<<"triage failed">>,
                          <<"repair requires --backups-path and RESTIC_PASSWORD">>,
                          <<"pre-repair backup failed">>}

C2_Witness ==
    /\ C2_Case /\ cfg.Force
    /\ k8s.cond[k8s.currentPrimary] = "primary-ready"
    /\ pc = "done"
    /\ err = <<"HARD STOP: target is the PRIMARY">>
    /\ NoMutation

\* C3: a targeted repair whose triage reports that it is not safe to heal
\* fails when force is not set, and the heal is never started; under an
\* unsafe triage a heal is started only with force.
C3_TargetedUnsafeNeedsForce ==
    /\ (Unsafe /\ Targeted /\ ~cfg.Force) =>
          /\ NoHealStep
          /\ pc = "done" => err # << >>
    /\ Unsafe => (cfg.Force \/ NoHealStep)

C3_Witness ==
    /\ Unsafe /\ Targeted /\ ~cfg.Force
    /\ pc = "done"
    /\ err = <<"ABORT: Split-brain detected">>
    /\ NoHealStep

\* the global safety gate, on the cluster as it is when Repair starts: galera
\* has a node that is running and ready; cnpg has a primary whose pod exists,
\* is Running and ready
C4_GateHolds ==
    IF engine = "cnpg"
    THEN /\ k8s.currentPrimary # NoPod
         /\ k8s.cond[k8s.currentPrimary] = "primary-ready"
    ELSE \E p \in DOMAIN k8s.cond : k8s.cond[p] \in {"synced", "synced-nonprimary"}

C4_PreconditionErrors ==
    {<<"ABORT: No primary detected">>,
     <<"ABORT: Primary pod not found">>,
     <<"ABORT: Primary is not running and ready">>,
     <<"ABORT: No healthy donor nodes found">>}

\* C4: a repair makes no mutation unless the global safety gate passes;
\* when the gate does not hold, the repair aborts with a pre-condition error
\* before any mutation.
C4_GateBeforeMutation ==
    /\ mode = "repair" => (C4_GateHolds \/ (NoHealStep /\ NoMutation))
    /\ (Triaged /\ ~C4_GateHolds /\ pc = "done") =>
          (err \in C4_PreconditionErrors /\ NoMutation)

C4_Witness ==
    /\ Triaged /\ ~C4_GateHolds
    /\ pc = "done"
    /\ err \in {<<"ABORT: Primary is not running and ready">>,
                <<"ABORT: No healthy donor nodes found">>}
    /\ NoMutation

\* C5: in a repair with noEscrow=false, a heal step (fence, CR suspend,
\* scale-down, heal or helper pod creation) is made only after an escrow
\* backup of type "backup" has succeeded in the same run, and no heal step is
\* made when the escrow backup fails.
C5_EscrowBeforeHeal ==
    (mode = "repair" /\ ~cfg.NoEscrow) =>
        /\ OpsDone \cap HealStepOps # {}
              => \E i \in 1..Len(snapshots) : snapshots[i].type = "backup"
        /\ loc.escrow = "failed" => NoHealStep

\* C8: when a galera heal that has suspended the MariaDB CR returns, with
\* success or with the error of a handled failure, the CR is not suspended.
C8_ResumedOnReturn ==
    (engine = "galera" /\ pc = "HealReturned" /\ loc.everSuspended) => ~k8s.suspend

\* C9: when a galera heal fails or is interrupted after the CR was suspended
\* and before it was resumed, the rescue has run, the resume of the CR was
\* attempted exactly once, and the heal returned an error that wraps the
\* cause.
C9_RescueResumesOnce ==
    LET failed      == pc = "HealReturned" /\ loc.healErr # << >> /\ loc.everSuspended
        interrupted == pc = "killed" /\ loc.suspended
    IN (engine = "galera" /\ (failed \/ interrupted)) =>
          /\ loc.rescueRuns = 1
          /\ loc.resumeAttempts = 1
          /\ loc.healReturned /\ Len(loc.healErr) >= 1

\* C10: when a cnpg heal of an instance returns success the instance is not
\* in the cluster's fence list; a fence applied by the heal remains only when
\* the heal returns an error.
C10_UnfencedOnSuccess ==
    (engine = "cnpg" /\ pc = "HealReturned" /\ loc.healErr = << >>) =>
        loc.cur \notin Fenced(k8s)

\* the operation that deletes what the operation op created
DeleteOf(op) == IF op = "createHealPod" THEN "deleteHealPod" ELSE "deleteHelper"

\* Repair has returned
Finished == mode = "repair" /\ pc = "done"

C12_Case ==
    /\ engine = "cnpg" /\ pc = "HealReturned"
    /\ loc.healPodCreated /\ ~loc.acquired

CapturesOf(p) == Cardinality({i \in 1..Len(loc.captures) : loc.captures[i].pod = p})

\* C13: when the triage reports that it is not safe to heal and the escrow is
\* enabled, Repair attempts exactly one capture of type "diverged" of every
\* instance whose pod is running and ready, and none of any other instance.
C13_DivergedPerReadyInstance ==
    (mode = "repair" /\ pc = "Branch" /\ Unsafe /\ ~cfg.NoEscrow) =>
        \A p \in Members(engine) :
            CapturesOf(p) = IF k8s.pods[p] = "ready" THEN 1 ELSE 0

DivergedSnapshots == {i \in 1..Len(snapshots) : snapshots[i].type = "diverged"}

\* C14: a diverged capture is stored under <ns>/<cluster>/<ordinal>-<file>
\* with the ordinal of the captured instance, so that the captures of
\* distinct instances of one run have distinct virtual paths.
C14_DivergedPathByOrdinal ==
    mode = "repair" =>
        /\ \A i \in 1..Len(loc.captures) :
              loc.captures[i].path = <<loc.captures[i].pod, DumpFilename>>
        /\ \A i, j \in 1..Len(loc.captures) :
              loc.captures[i].pod # loc.captures[j].pod
                  => loc.captures[i].path # loc.captures[j].path
        /\ \A i, j \in DivergedSnapshots :
              i # j => snapshots[i].path # snapshots[j].path

\* C15: every snapshot of a repair run (the escrow backup and the diverged
\* captures) carries the same snapshot time, the second of the job start and
\* not the time at which its dump completed, and every diverged capture
\* carries the same job tag, the second of the job start.
C15_JobStartTime ==
    (mode = "repair" /\ snapshots # << >>) =>
        \A i \in 1..Len(snapshots) :
            /\ 2 * snapshots[i].time <= loc.start
            /\ loc.start < 2 * snapshots[i].time + 2
            /\ snapshots[i].time = snapshots[1].time
            /\ IF snapshots[i].type = "diverged"
               THEN /\ 2 * snapshots[i].job <= loc.start
                    /\ loc.start < 2 * snapshots[i].job + 2
               ELSE snapshots[i].job = NoJob

C15_Witness ==
    /\ mode = "repair"
    /\ Len(snapshots) >= 3
    /\ snapshots[1].type = "backup"
    /\ {2, 3} \subseteq DivergedSnapshots
    /\ snapshots[3].time # FormatSeconds(dumpCompletion(3))
    /\ snapshots[2].job = snapshots[3].job

\* the waits for a heal pod or a helper pod, and the waits for the target pod
PodWaits == {"acquire", "heal-pod", "helper"}

TargetWaits == {"terminate", "ready"}

HealHasReturned == mode = "repair" /\ pc = "HealReturned"

C21_CancelEndsDeleteRace ==
    (mode = "repair" /\ pc = "DeleteRace" /\ ctxCancelled(loc)) =>
        loc.polls <= loc.cancelledAt + 1

\* C23: every repair that healed at least one instance and returns nil,
\* targeted or untargeted, has run the triage again after the heal and
\* holds its result in PostTriageResult.
C23_PostTriageAttached ==
    (Finished /\ err = << >> /\ loc.healed # << >>) => loc.postTriage = "result"


\* C27: every Galera heal of the node with ordinal N in a cluster of R
\* replicas, in targeted and in untargeted repair, scales the StatefulSet
\* down to N when N = R-1 and to 0 otherwise.
C27_ScaleTargetByOrdinal ==
    (mode = "repair" /\ engine = "galera" /\ pc = "StorageHelper") =>
        log[Len(log)] = [op |-> "scale",
                         pod |-> IF loc.cur = RepairNodes - 1 THEN loc.cur ELSE 0]

\* C30: within one Postgres heal the calls that change the cluster are made
\* in the order fence, create heal pod, delete-race (deletes of the target
\* pod), wait for the heal pod to succeed, unfence, delete the old target
\* pod.  The heal pod exists only under an applied fence, and the unfence
\* and the final delete follow the observation of phase Succeeded.
C30_HealOrder ==
    (mode = "repair" /\ engine = "cnpg") =>
        /\ loc.healPodCreated => (loc.fenceApplied /\ loc.cur \in Fenced(k8s))
        /\ \A p \in loc.healStarted :
              LET ops == SelectSeq(log, LAMBDA e : e.pod = p /\ e.op \in
                             {"fence", "createHealPod", "deletePod",
                              "deleteHealPod", "unfence"})
                  n   == Len(ops)
                  dh  == IF \E i \in 1..n : ops[i].op = "deleteHealPod"
                         THEN CHOOSE i \in 1..n :
                                /\ ops[i].op = "deleteHealPod"
                                /\ \A j \in 1..(i - 1) : ops[j].op # "deleteHealPod"
                         ELSE n + 1
              IN /\ n >= 1 => ops[1].op = "fence"
                 /\ n >= 2 => ops[2].op = "createHealPod"
                 /\ \A i \in 3..n : i < dh => ops[i].op = "deletePod"
                 /\ \A i \in (dh + 1)..n :
                       /\ (p = loc.cur /\ loc.succeeded)
                             \/ \E h \in 1..Len(loc.healed) : loc.healed[h] = p
                       /\ \/ ops[i].op = "unfence" /\ i = dh + 1
                          \/ ops[i].op = "deletePod" /\ i = n

\* an untargeted repair that healed two instances: the first's pod was
\* deleted in the delete race, the second's after the unfence
C30_Witness ==
    /\ mode = "repair" /\ engine = "cnpg" /\ pc = "HealReturned"
    /\ loc.healErr = << >> /\ loc.succeeded /\ Len(loc.healed) = 1
    /\ LET seqOf(p, names) == [i \in 1..5 |-> [op |-> names[i], pod |-> p]]
           opsOf(p) == SelectSeq(log, LAMBDA e : e.pod = p /\ e.op \in
                           {"fence", "createHealPod", "deletePod",
                            "deleteHealPod", "unfence"})
       IN /\ opsOf(loc.healed[1]) =
                seqOf(loc.healed[1], <<"fence", "createHealPod", "deletePod",
                                       "deleteHealPod", "unfence">>)
          /\ opsOf(loc.cur) =
                seqOf(loc.cur, <<"fence", "createHealPod", "deleteHealPod",
                                 "unfence", "deletePod">>)

\* C31: within one Galera heal the CR is suspended before the workload is
\* scaled down, a helper pod runs only after the scale-down and before the
\* scale back, and the workload is scaled back to the original replica count
\* before the CR is resumed; rescue() deletes the helper pods, then restores
\* the scale, then resumes the CR.  Stated of the calls the heal has logged
\* from its suspend on, when it has returned or the process was killed.
C31_GaleraHealOrder ==
    (/\ mode = "repair" /\ engine = "galera" /\ pc \in {"HealReturned", "killed"}
     /\ \E j \in 1..Len(log) : log[j].op = "suspend") =>
        LET start == CHOOSE j \in 1..Len(log) :
                        /\ log[j].op = "suspend"
                        /\ \A k \in (j + 1)..Len(log) : log[k].op # "suspend"
            ops == SelectSeq(SubSeq(log, start, Len(log)), LAMBDA e : e.op \in
                       {"suspend", "scale", "createHelper", "deleteHelper",
                        "deleteHelpers", "resume"})
            n       == Len(ops)
            down(i) == ops[i].op = "scale" /\ ops[i].pod < RepairNodes
            up(i)   == ops[i].op = "scale" /\ ops[i].pod = RepairNodes
        IN \A i \in 2..n :
              /\ down(i) => i = 2
              /\ ops[i].op = "createHelper" =>
                    /\ ops[i - 1].op = "deleteHelper" \/ down(i - 1)
                    /\ down(2)
                    /\ \A j \in 1..(i - 1) : ~up(j)
              /\ ops[i].op = "deleteHelper" => ops[i - 1].op = "createHelper"
              /\ up(i) =>
                    /\ ops[i - 1].op \in {"deleteHelper", "deleteHelpers"}
                    /\ down(2)
                    /\ \A j \in 1..(i - 1) : ~up(j)
              /\ ops[i].op = "resume" =>
                    /\ up(i - 1) \/ ops[i - 1].op = "deleteHelpers"
                    /\ i = n
                    /\ (\A j \in 1..(i - 1) : ops[j].op # "deleteHelpers")
                          => up(i - 1)
              /\ ops[i].op = "deleteHelpers" =>
                    \A j \in 1..(i - 1) : ops[j].op # "deleteHelpers"

\* a heal whose galera helper failed: suspend, scale down, both helpers,
\* then the rescue with its three calls
C31_Witness ==
    /\ mode = "repair" /\ engine = "galera" /\ pc = "HealReturned"
    /\ loc.healErr # << >> /\ ~k8s.suspend
    /\ Len(log) >= 9
    /\ [i \in 1..9 |-> log[Len(log) - 9 + i].op] =
          <<"suspend", "scale", "createHelper", "deleteHelper", "createHelper",
            "deleteHelper", "deleteHelpers", "scale", "resume">>

\* C32: in untargeted repair at most one instance is under heal at any time.
\* Every instance whose heal was started, other than the current one, is in
\* HealedInstances (its heal returned nil before the next began); the calls
\* made for one instance are not interleaved with those for another; and
\* after a failed heal the run ends with the remaining targets not started.
C32_SequentialHeals ==
    (mode = "repair" /\ ~Targeted /\ loc.healStarted # {}) =>
        LET healedSet == {loc.healed[i] : i \in 1..Len(loc.healed)}
            podOps == SelectSeq(log, LAMBDA e : e.op \in
                          {"fence", "createHealPod", "deleteHealPod", "unfence",
                           "suspend", "createHelper", "deleteHelper",
                           "deleteHelpers", "resume"})
        IN /\ loc.healStarted \ healedSet \subseteq {loc.cur}
           /\ Cardinality(loc.healStarted) <= Len(loc.healed) + 1
           /\ \A i \in 1..(Len(podOps) - 1) :
                 podOps[i].pod # podOps[i + 1].pod =>
                     \A k \in (i + 1)..Len(podOps) : podOps[k].pod # podOps[i].pod
           /\ loc.healErr # << >> =>
                 /\ pc \in {"HealReturned", "done"}
                 /\ loc.cur \notin healedSet

\* the first of two heals failed and Repair returned without starting the
\* second
C32_Witness ==
    /\ mode = "repair" /\ ~Targeted /\ pc = "done" /\ err # << >>
    /\ loc.healErr # << >> /\ loc.healed = << >>
    /\ loc.targets # << >>
    /\ loc.healStarted = {loc.cur}
    /\ \A i \in 1..Len(log) : log[i].op \in {"fence", "suspend"} => log[i].pod = loc.cur
---------------------------------------------------------------------------
(* restic/restore.go: group-aware retention (GroupByJob,                    *)
(* ApplyGroupRetention).  A snapshot is [ShortID, job, Time]: job is the    *)
(* value of its "job" tag, "" when it has none.  Times are counted in half  *)
(* days; a week of the model has two days and a month three, so that weeks  *)
(* and months do not nest.                                                  *)

MaxSnapshots == 3

KeepValues == {0, 1, 2}

SnapshotJobs == {"", "a"}

SnapshotTimes == {0, 1, 4, 6}

DayOf(t) == t \div 2

WeekOf(t) == DayOf(t) \div 2

MonthOf(t) == DayOf(t) \div 3

\* the snapshot lists retention is applied to: ShortIDs are unique
RetentionInputs ==
    UNION {{[i \in 1..n |-> [ShortID |-> i, job |-> f[i][1], Time |-> f[i][2]]] :
               f \in [1..n -> SnapshotJobs \X SnapshotTimes]} : n \in 0..MaxSnapshots}

RetentionPolicies ==
    [KeepLast : KeepValues, KeepDaily : KeepValues,
     KeepWeekly : KeepValues, KeepMonthly : KeepValues]

\* the group key that takes every snapshot for a group of its own
jobIDOf_ownGroup(s) == <<"ungrouped-", s.ShortID>>

\* GroupByJob: tags["job"], or "ungrouped-" + ShortID without a job tag
jobIDOf(s) == IF s.job = "" THEN <<"ungrouped-", s.ShortID>> ELSE <<s.job>>

\* the JobGroup of key id: its Time is the Time of the first snapshot of the
\* input that has the key, its Snapshots are those with the key, in order
jobGroup(snaps, id) ==
    LET idx == {i \in 1..Len(snaps) : jobIDOf(snaps[i]) = id}
        first == CHOOSE i \in idx : \A j \in idx : i <= j
    IN [JobID |-> id, Time |-> snaps[first].Time,
        Snapshots |-> SelectSeq(snaps, LAMBDA x : jobIDOf(x) = id)]

\* the orders sort.Slice can leave the groups in: newest first, groups of
\* equal Time in any order
RECURSIVE newestFirst(_)
newestFirst(groups) ==
    IF groups = {} THEN {<< >>}
    ELSE UNION {{<<g>> \o rest : rest \in newestFirst(groups \ {g})} :
                   g \in {x \in groups : \A y \in groups : ~(y.Time > x.Time)}}

\* GroupByJob: the groups, sorted by Time, newest first.  The groups come out
\* of a map and sort.Slice is not stable: groups of equal Time are in any
\* order, so this is the set of the lists GroupByJob can return.
GroupByJob(snaps) ==
    newestFirst({jobGroup(snaps, id) : id \in {jobIDOf(snaps[i]) : i \in 1..Len(snaps)}})

\* keep-last that keeps the KeepLast-th group only
keepLastSet_nthOnly(groups, k) ==
    IF k > 0 /\ k <= Len(groups) THEN {groups[k].JobID} ELSE {}

\* "if policy.KeepLast > 0": the first KeepLast groups
keepLastSet(groups, k) ==
    IF k > 0 THEN {groups[i].JobID : i \in {j \in 1..Len(groups) : j <= k}} ELSE {}

\* the window loop of keep-daily, keep-weekly and keep-monthly from group i
\* on: keys[i] is the window of groups[i], seen the number of windows met,
\* last the window of the group before
RECURSIVE windowWalk(_, _, _, _, _, _)
windowWalk(groups, keys, k, i, seen, last) ==
    IF i > Len(groups) THEN {}
    ELSE IF keys[i] # last
         THEN IF seen + 1 > k THEN {}
              ELSE {groups[i].JobID}
                     \cup windowWalk(groups, keys, k, i + 1, seen + 1, keys[i])
         ELSE windowWalk(groups, keys, k, i + 1, seen, last)

keepWindowSet(groups, keys, k) ==
    IF k > 0 THEN windowWalk(groups, keys, k, 1, 0, << >>) ELSE {}

\* a day key that is the whole time stamp
dayKey_time(t) == <<t>>

\* g.Time.UTC().Format("2006-01-02")
dayKey(t) == <<DayOf(t)>>

\* the ISO year and week of g.Time.UTC()
weekKey(t) == <<WeekOf(t)>>

\* g.Time.UTC().Format("2006-01")
monthKey(t) == <<MonthOf(t)>>

\* an all-zero test that never holds
allZero_never(policy) == FALSE

\* "All zeros = keep everything"
allZero(policy) ==
    /\ policy.KeepLast = 0 /\ policy.KeepDaily = 0
    /\ policy.KeepWeekly = 0 /\ policy.KeepMonthly = 0

\* ApplyGroupRetention: nil lists are empty lists
ApplyGroupRetention(groups, policy) ==
    IF Len(groups) = 0 THEN [keep |-> << >>, remove |-> << >>]
    ELSE IF allZero(policy) THEN [keep |-> groups, remove |-> << >>]
    ELSE LET keepSet ==
                 keepLastSet(groups, policy.KeepLast)
                 \cup keepWindowSet(groups,
                        [i \in 1..Len(groups) |-> dayKey(groups[i].Time)],
                        policy.KeepDaily)
                 \cup keepWindowSet(groups,
                        [i \in 1..Len(groups) |-> weekKey(groups[i].Time)],
                        policy.KeepWeekly)
                 \cup keepWindowSet(groups,
                        [i \in 1..Len(groups) |-> monthKey(groups[i].Time)],
                        policy.KeepMonthly)
         IN [keep   |-> SelectSeq(groups, LAMBDA g : g.JobID \in keepSet),
             remove |-> SelectSeq(groups, LAMBDA g : g.JobID \notin keepSet)]

InitRetention ==
    /\ engine = "restic"
    /\ mode = "retention"
    /\ cfg \in RetentionPolicies
    /\ snapshots \in RetentionInputs
    /\ data = NoData
    /\ result = NoResult
    /\ pc = "ForgetGrouped"
    /\ err = << >>
    /\ k8s = IdleK8s
    /\ loc = IdleLoc
    /\ log = << >>

\* ForgetGrouped up to the forget calls: GroupByJob, ApplyGroupRetention
Retention ==
    /\ mode = "retention" /\ pc = "ForgetGrouped"
    /\ \E groups \in GroupByJob(snapshots) :
          LET r == ApplyGroupRetention(groups, cfg)
          IN result' = [groups |-> groups, keep |-> r.keep, remove |-> r.remove]
    /\ pc' = "done"
    /\ UNCHANGED <<engine, mode, cfg, data, err, k8s, loc, log, snapshots>>

NextRetention == Retention

SpecRetention == InitRetention /\ [][NextRetention]_vars

\* group-aware retention has run
Retained == mode = "retention" /\ pc = "done"

\* the ShortIDs of the snapshots of a list of groups
SnapshotsIn(groups) ==
    UNION {{groups[i].Snapshots[j].ShortID : j \in 1..Len(groups[i].Snapshots)} :
              i \in 1..Len(groups)}

RECURSIVE SnapshotCount(_)
SnapshotCount(groups) ==
    IF groups = << >> THEN 0
    ELSE Len(Head(groups).Snapshots) + SnapshotCount(Tail(groups))

JobIDsOf(groups) == {groups[i].JobID : i \in 1..Len(groups)}

\* C16: group-aware retention puts every input snapshot in exactly one of
\* kept and removed, and every job group (the snapshots that share a job tag,
\* or one snapshot without a job tag) entirely in kept or entirely in
\* removed, for every snapshot list and every policy.
C16_GroupsAtomic ==
    Retained =>
        LET kept    == SnapshotsIn(result.keep)
            removed == SnapshotsIn(result.remove)
        IN /\ kept \cup removed = 1..Len(snapshots)
           /\ kept \cap removed = {}
           /\ SnapshotCount(result.keep) + SnapshotCount(result.remove) = Len(snapshots)
           /\ \A i, j \in 1..Len(snapshots) :
                 (snapshots[i].job # "" /\ snapshots[i].job = snapshots[j].job)
                     => (i \in kept <=> j \in kept)

C16_Witness ==
    /\ Retained
    /\ \E i, j \in 1..Len(snapshots) :
          /\ i # j
          /\ snapshots[i].job = "a" /\ snapshots[j].job = "a"
          /\ snapshots[i].Time # snapshots[j].Time
          /\ i \in SnapshotsIn(result.remove)
    /\ result.keep # << >>

\* the policy with one more in dimension dim
Increased(policy, dim) == [policy EXCEPT ![dim] = @ + 1]

KeepDimensions == {"KeepLast", "KeepDaily", "KeepWeekly", "KeepMonthly"}

\* C17 as stated: for every group list and every two policies of which the
\* second has one keep dimension larger, the groups kept under the second
\* include the groups kept under the first.
C17_Monotonic ==
    Retained =>
        \A dim \in KeepDimensions :
            JobIDsOf(result.keep) \subseteq
                JobIDsOf(ApplyGroupRetention(result.groups, Increased(cfg, dim)).keep)

\* C17, amended: the same, for a first policy that has a non-zero dimension;
\* the all-zero policy keeps every group, and every policy above it keeps a
\* part of them.
C17_MonotonicAboveZero ==
    (Retained /\ ~(cfg.KeepLast = 0 /\ cfg.KeepDaily = 0
                     /\ cfg.KeepWeekly = 0 /\ cfg.KeepMonthly = 0)) =>
        \A dim \in KeepDimensions :
            JobIDsOf(result.keep) \subseteq
                JobIDsOf(ApplyGroupRetention(result.groups, Increased(cfg, dim)).keep)

C17_Witness ==
    /\ Retained
    /\ cfg.KeepLast = 1 /\ cfg.KeepDaily = 0
    /\ result.keep # << >> /\ result.remove # << >>
    /\ JobIDsOf(result.keep) # JobIDsOf(ApplyGroupRetention(result.groups,
                                              Increased(cfg, "KeepLast")).keep)

\* C18: with the policy (0,0,0,0) group-aware retention keeps every input
\* group and removes none; with an empty input it returns an empty kept and
\* an empty removed list.
C18_AllZeroKeepsAll ==
    /\ (Retained /\ cfg = [KeepLast |-> 0, KeepDaily |-> 0,
                           KeepWeekly |-> 0, KeepMonthly |-> 0]) =>
          /\ result.keep = result.groups
          /\ result.remove = << >>
          /\ SnapshotsIn(result.keep) = 1..Len(snapshots)
    /\ (Retained /\ snapshots = << >>) =>
          (result.keep = << >> /\ result.remove = << >>)

C18_Witness ==
    /\ Retained
    /\ cfg = [KeepLast |-> 0, KeepDaily |-> 0, KeepWeekly |-> 0, KeepMonthly |-> 0]
    /\ Len(result.keep) >= 2

\* the days of the groups, and the k most recent of them
GroupDays == {DayOf(result.groups[i].Time) : i \in 1..Len(result.groups)}

RecentDays(k) == {d \in GroupDays : Cardinality({e \in GroupDays : e > d}) < k}

\* C19: with keepDaily = k > 0 and the other dimensions zero, group-aware
\* retention keeps exactly one group of each of the k most recent distinct
\* dates of the input, the newest group of that date, and removes every
\* other group.
C19_KeepDailyNewestPerDay ==
    (Retained /\ cfg.KeepDaily > 0 /\ cfg.KeepLast = 0
        /\ cfg.KeepWeekly = 0 /\ cfg.KeepMonthly = 0) =>
        LET G == result.groups
            keptIdx == {i \in 1..Len(G) : G[i].JobID \in JobIDsOf(result.keep)}
        IN /\ \A d \in RecentDays(cfg.KeepDaily) :
                 /\ Cardinality({i \in keptIdx : DayOf(G[i].Time) = d}) = 1
                 /\ \A i \in keptIdx : DayOf(G[i].Time) = d =>
                       \A j \in 1..Len(G) : DayOf(G[j].Time) = d => G[j].Time <= G[i].Time
           /\ \A i \in keptIdx : DayOf(G[i].Time) \in RecentDays(cfg.KeepDaily)
           /\ JobIDsOf(result.remove) = JobIDsOf(G) \ JobIDsOf(result.keep)
           /\ JobIDsOf(result.keep) \cap JobIDsOf(result.remove) = {}

C19_Witness ==
    /\ Retained
    /\ cfg = [KeepLast |-> 0, KeepDaily |-> 1, KeepWeekly |-> 0, KeepMonthly |-> 0]
    /\ Len(result.groups) = 3
    /\ result.groups[1].Time = 1 /\ result.groups[2].Time = 0
    /\ Len(result.keep) = 1 /\ Len(result.remove) = 2

---------------------------------------------------------------------------
(* controller/scheduler.go, triage_scheduler.go, backup_scheduler.go: the   *)
(* operator's cron scheduler.  data is the Scheduler: managed maps a key    *)
(* "engine/namespace/name" to its scheduledDB (or NotManaged), cron is the  *)
(* set of entries of the cron.Cron and nextID the EntryID it hands out      *)
(* next.  loc.jobs is the bag of the job goroutines that run: cron starts   *)
(* every due entry in a goroutine of its own (cron.New is called without a  *)
(* job wrapper), whether or not an earlier job still runs.  The keys of     *)
(* managed are the databases the reconciler knows of: one in the            *)
(* specification with the jobs, two in the one of the registry alone.       *)

MaxEntryID == 4

MaxJobs == 2

ManagedKeys == {"cnpg/ns/a", "galera/ns/b"}

\* "" schedules nothing, "@hourly" parses, "hourly" is a spec cron.AddFunc
\* rejects
Schedules == {"", "@hourly", "hourly"}

Modes == {"disabled", "triage", "repair"}

RepositoryLists == {<<"r1">>}

\* v1alpha1.EffectiveConfig
EffectiveConfigs ==
    [BackupSchedule : Schedules, TriageSchedule : {"@hourly"}, Mode : Modes,
     Repositories : RepositoryLists, HealTimeout : {600, 1200}]

\* the configurations the BackupPolicies of the cluster resolve to: every
\* mode with and without a backup schedule, one of them also with a longer
\* heal timeout, and one with a backup schedule that does not parse
Policies ==
    {c \in EffectiveConfigs :
        \/ c.HealTimeout = 600 /\ c.BackupSchedule # "hourly"
        \/ c.HealTimeout = 1200 /\ c.BackupSchedule = "@hourly" /\ c.Mode = "repair"
        \/ c.HealTimeout = 600 /\ c.BackupSchedule = "hourly" /\ c.Mode = "triage"}

NotManaged == [none |-> TRUE]

\* EntryID 0: no triage entry
NoEntryID == 0

\* the cron entries Register adds for db, the first with EntryID first:
\* one backup entry per repository, then the triage entry.  The closures
\* capture db.  An AddFunc that fails adds nothing and is only logged.
backupEntries(key, db, first) ==
    IF db.BackupSchedule = "@hourly" /\ db.Mode # "disabled"
    THEN [i \in 1..Len(db.Repositories) |->
             [id |-> first + i - 1, op |-> "backup", key |-> key,
              repo |-> db.Repositories[i], db |-> db]]
    ELSE << >>

triageEntries(key, db, first) ==
    IF db.TriageSchedule = "@hourly" /\ db.Mode # "disabled"
    THEN <<[id |-> first, op |-> "triage", key |-> key, repo |-> "", db |-> db]>>
    ELSE << >>

newEntries(key, db, first) ==
    LET b == backupEntries(key, db, first)
    IN b \o triageEntries(key, db, first + Len(b))

\* the scheduledDB Register stores for the entries it added
scheduledDB(db, entries) ==
    [db |-> db,
     backupIDs |-> [i \in 1..Len(SelectSeq(entries, LAMBDA e : e.op = "backup")) |->
                       SelectSeq(entries, LAMBDA e : e.op = "backup")[i].id],
     triageID |-> IF \E i \in 1..Len(entries) : entries[i].op = "triage"
                  THEN entries[Len(entries)].id ELSE NoEntryID]

\* the EntryIDs a scheduledDB records
entryIDs(sdb) ==
    {sdb.backupIDs[i] : i \in 1..Len(sdb.backupIDs)}
    \cup (IF sdb.triageID # NoEntryID THEN {sdb.triageID} ELSE {})

\* a deregisterLocked that leaves the triage entry in the cron
deregisterLocked_keepTriage(d, key) ==
    IF d.managed[key] = NotManaged THEN d
    ELSE [d EXCEPT !.cron = {e \in @ : e.id \notin entryIDs(d.managed[key])
                                        \/ e.id = d.managed[key].triageID},
                   !.managed[key] = NotManaged]

\* deregisterLocked: remove the recorded entries from cron, delete the key
deregisterLocked(d, key) ==
    IF d.managed[key] = NotManaged THEN d
    ELSE [d EXCEPT !.cron = {e \in @ : e.id \notin entryIDs(d.managed[key])},
                   !.managed[key] = NotManaged]

\* "already registered with same schedules"
sameSchedules(a, b) ==
    /\ a.BackupSchedule = b.BackupSchedule
    /\ a.TriageSchedule = b.TriageSchedule
    /\ a.Mode = b.Mode
    /\ a.Repositories = b.Repositories

\* Scheduler.Register
register(d, key, db) ==
    IF d.managed[key] # NotManaged /\ sameSchedules(d.managed[key].db, db)
    THEN [d EXCEPT !.managed[key].db = db]
    ELSE LET d1 == deregisterLocked(d, key)
             entries == newEntries(key, db, d1.nextID)
         IN [d1 EXCEPT !.cron = @ \cup {entries[i] : i \in 1..Len(entries)},
                       !.nextID = @ + Len(entries),
                       !.managed[key] = scheduledDB(db, entries)]

InitScheduler ==
    /\ engine = "operator"
    /\ mode = "operator"
    /\ cfg = IdleCfg
    /\ data = [managed |-> [k \in {"cnpg/ns/a"} |-> NotManaged], cron |-> {}, nextID |-> 1]
    /\ result = NoResult
    /\ pc = "running"
    /\ err = << >>
    /\ k8s = IdleK8s
    /\ loc = [jobs |-> EmptyBag]
    /\ log = << >>
    /\ snapshots = << >>

Register ==
    /\ mode \in {"operator", "registry"}
    /\ \E key \in DOMAIN data.managed, db \in Policies :
          /\ register(data, key, db).nextID <= MaxEntryID + 1
          /\ data' = register(data, key, db)
    /\ UNCHANGED <<engine, mode, cfg, result, pc, err, k8s, loc, log, snapshots>>

Deregister ==
    /\ mode \in {"operator", "registry"}
    /\ \E key \in DOMAIN data.managed : data' = deregisterLocked(data, key)
    /\ UNCHANGED <<engine, mode, cfg, result, pc, err, k8s, loc, log, snapshots>>

\* the job has no triage result
NoTriage == [none |-> TRUE]

\* an entry of cron is due: its job starts in a new goroutine and runs the
\* closure of the entry, with the db the closure captured; registered is the
\* configuration the scheduler holds for the key at that moment
CronFire ==
    /\ mode = "operator"
    /\ BagCardinality(loc.jobs) < MaxJobs
    /\ \E e \in data.cron :
          loc' = [loc EXCEPT !.jobs = @ (+) SetToBag({[op |-> e.op, key |-> e.key,
                                                      repo |-> e.repo, db |-> e.db,
                                                      registered |-> data.managed[e.key].db,
                                                      triage |-> NoTriage]})]
    /\ UNCHANGED <<engine, mode, cfg, data, result, pc, err, k8s, log, snapshots>>

\* the job goroutine j ends
jobReturns(jobs, j) == jobs (-) SetToBag({j})

\* a classification in which split-brain does not override unhealthy
triageResult_unhealthyFirst(readyLessThanTotal, safeToHeal, splitBrainDetails) ==
    IF readyLessThanTotal THEN "unhealthy"
    ELSE IF ~safeToHeal /\ splitBrainDetails THEN "split-brain"
    ELSE "healthy"

\* runTriage: the classification of a triage result
triageResult(readyLessThanTotal, safeToHeal, splitBrainDetails) ==
    IF ~safeToHeal /\ splitBrainDetails THEN "split-brain"
    ELSE IF readyLessThanTotal THEN "unhealthy"
    ELSE "healthy"

\* runBackup returns (with or without an error)
BackupJobReturns ==
    /\ mode = "operator"
    /\ \E j \in BagToSet(loc.jobs) :
          /\ j.op = "backup"
          /\ loc' = [loc EXCEPT !.jobs = jobReturns(@, j)]
    /\ UNCHANGED <<engine, mode, cfg, data, result, pc, err, k8s, log, snapshots>>

\* runTriage after eng.Triage: it returns on an error of the triage; else
\* it classifies the result and returns, or goes on into runAutoRepair,
\* which returns without a repository or credentials and else runs
\* eng.Repair; the repair job keeps the triage result that started it
TriageJobDone ==
    /\ mode = "operator"
    /\ \E j \in BagToSet(loc.jobs) :
          /\ j.op = "triage"
          /\ \/ loc' = [loc EXCEPT !.jobs = jobReturns(@, j)]
             \/ \E less \in BOOLEAN, safe \in BOOLEAN, details \in BOOLEAN :
                   /\ j.db.Mode = "repair"
                   /\ triageResult(less, safe, details) = "unhealthy"
                   /\ Len(j.db.Repositories) > 0
                   /\ loc' = [loc EXCEPT !.jobs = jobReturns(@, j) (+)
                                  SetToBag({[j EXCEPT
                                      !.op = "repair",
                                      !.repo = j.db.Repositories[1],
                                      !.triage = [ReadyLessThanTotal |-> less,
                                                  SafeToHeal |-> safe,
                                                  SplitBrainDetails |-> details]]})]
    /\ UNCHANGED <<engine, mode, cfg, data, result, pc, err, k8s, log, snapshots>>

\* runAutoRepair returns (with or without an error)
RepairJobReturns ==
    /\ mode = "operator"
    /\ \E j \in BagToSet(loc.jobs) :
          /\ j.op = "repair"
          /\ loc' = [loc EXCEPT !.jobs = jobReturns(@, j)]
    /\ UNCHANGED <<engine, mode, cfg, data, result, pc, err, k8s, log, snapshots>>

NextScheduler ==
    \/ Register
    \/ Deregister
    \/ CronFire
    \/ BackupJobReturns
    \/ TriageJobDone
    \/ RepairJobReturns

SpecScheduler == InitScheduler /\ [][NextScheduler]_vars

\* C37: a scheduled triage goes on into auto-repair only when the mode of
\* its database is repair and the triage result is unhealthy: fewer ready
\* than total instances and no split-brain.  No repair runs for a healthy or
\* split-brain result, nor in mode triage or disabled.
C37_AutoRepairOnlyWhenUnhealthy ==
    mode = "operator" =>
        \A j \in BagToSet(loc.jobs) :
            j.op = "repair" =>
                /\ j.db.Mode = "repair"
                /\ j.triage # NoTriage
                /\ j.triage.ReadyLessThanTotal
                /\ ~(~j.triage.SafeToHeal /\ j.triage.SplitBrainDetails)

\* an auto-repair runs after a triage that found an instance down, beside a
\* triage of a database in mode triage
C37_Witness ==
    /\ mode = "operator"
    /\ \E j \in BagToSet(loc.jobs) :
          /\ j.op = "repair" /\ j.triage # NoTriage
          /\ j.triage.ReadyLessThanTotal /\ j.triage.SafeToHeal
    /\ \E j \in BagToSet(loc.jobs) : j.op = "triage" /\ j.db.Mode = "triage"

\* C38: after a Register of a registered database with the same schedules,
\* mode and repositories but another retention or timeout, every backup or
\* triage job fired from then on runs with the new configuration: a job
\* runs with the configuration registered for its key when it was fired.
C38_JobsRunRegisteredConfig ==
    mode = "operator" =>
        \A j \in BagToSet(loc.jobs) : j.op \in {"backup", "triage"} => j.db = j.registered

\* the registry alone, under Register and Deregister calls for two databases
InitRegistry ==
    /\ engine = "operator"
    /\ mode = "registry"
    /\ cfg = IdleCfg
    /\ data = [managed |-> [k \in ManagedKeys |-> NotManaged], cron |-> {}, nextID |-> 1]
    /\ result = NoResult
    /\ pc = "running"
    /\ err = << >>
    /\ k8s = IdleK8s
    /\ loc = [jobs |-> EmptyBag]
    /\ log = << >>
    /\ snapshots = << >>

NextRegistry == Register \/ Deregister

SpecRegistry == InitRegistry /\ [][NextRegistry]_vars

\* the cron entries of a key
EntriesOf(key) == {e \in data.cron : e.key = key}

C22_OperationsSerialized ==
    mode = "operator" =>
        /\ \A j \in BagToSet(loc.jobs) : CopiesIn(j, loc.jobs) = 1
        /\ \A i, j \in BagToSet(loc.jobs) : i # j => i.key # j.key

---------------------------------------------------------------------------
(* Specification SpecFence: fenceInstance and unfenceInstance called on a    *)
(* cluster whose cnpg.io/fencedInstances annotation holds any list of up to  *)
(* MaxFenced names, written by earlier heals or by hand.  loc remembers the  *)
(* last call and the annotation it found.                                     *)

\* the longest fence list a call starts from
MaxFenced == 2

FencedAnnotations ==
    {NoAnnotation} \cup
    {[present |-> TRUE, value |-> l] :
        l \in UNION {[1..n -> Members("cnpg")] : n \in 0..MaxFenced}}

InitFence ==
    /\ engine = "cnpg"
    /\ mode = "fence"
    /\ cfg = IdleCfg
    /\ data = NoData
    /\ result = NoResult
    /\ pc = "idle"
    /\ err = << >>
    /\ \E a \in FencedAnnotations : k8s = [fenced |-> a]
    /\ loc = [op |-> "none", pod |-> NoPod, ok |-> FALSE, before |-> NoAnnotation]
    /\ log = << >>
    /\ snapshots = << >>

FenceCall ==
    /\ mode = "fence"
    /\ \E pod \in Members("cnpg"), ok \in BOOLEAN :
          /\ k8s' = fenceInstance(k8s, pod, ok)
          /\ loc' = [op |-> "fence", pod |-> pod, ok |-> ok, before |-> k8s.fenced]
    /\ UNCHANGED <<engine, mode, cfg, data, result, pc, err, log, snapshots>>

UnfenceCall ==
    /\ mode = "fence"
    /\ \E pod \in Members("cnpg"), ok \in BOOLEAN :
          /\ k8s' = unfenceInstance(k8s, pod, ok)
          /\ loc' = [op |-> "unfence", pod |-> pod, ok |-> ok, before |-> k8s.fenced]
    /\ UNCHANGED <<engine, mode, cfg, data, result, pc, err, log, snapshots>>

NextFence == FenceCall \/ UnfenceCall

SpecFence == InitFence /\ [][NextFence]_vars

\* C28: fencing an instance adds it to the cnpg.io/fencedInstances list only
\* if it is absent, and unfencing removes only that instance: the entries of
\* the other instances stay as they were, in number and in order, and
\* unfencing the last member removes the annotation altogether.
C28_FenceListFrame ==
    (mode = "fence" /\ loc.op # "none" /\ loc.ok) =>
        LET before    == parseFencedInstances(loc.before)
            after     == parseFencedInstances(k8s.fenced)
            others(l) == SelectSeq(l, LAMBDA f : f # loc.pod)
            own(l)    == Cardinality({i \in DOMAIN l : l[i] = loc.pod})
        IN /\ others(after) = others(before)
           /\ loc.op = "fence" =>
                 /\ own(before) = 0 => own(after) = 1
                 /\ own(before) > 0 => k8s.fenced = loc.before
           /\ loc.op = "unfence" =>
                 /\ own(after) = 0
                 /\ others(before) = << >> => k8s.fenced = NoAnnotation

\* the only entry of the list was unfenced
C28_Witness ==
    /\ mode = "fence" /\ loc.op = "unfence" /\ loc.ok
    /\ loc.before = [present |-> TRUE, value |-> <<loc.pod>>]
    /\ k8s.fenced = NoAnnotation

---------------------------------------------------------------------------
(* Specification SpecBackupDump: one call of BackupDump of either engine,    *)
(* with the dump exec (the goroutine of ExecPipeOut) and restic backup       *)
(* --stdin (BackupStdin) running side by side.  loc.exec and loc.restic are  *)
(* "running", "ok" or "failed"; loc.stdin is what restic's standard input    *)
(* has seen of the pipe: "open", "eof" (pw.Close) or "error"                 *)
(* (pw.CloseWithError(execErr)); loc.archErr is the error BackupStdin        *)
(* returned; loc.first remembers which of the two failed first.  The galera *)
(* engine looks for a healthy pod itself when no donor is given.             *)
(* loc.pending counts the chunks of dump output not yet written to the pipe: *)
(* io.Pipe has no buffer, so a Write returns only when the other end reads,  *)
(* and the only reader is the standard-input copy of a running restic.       *)

\* the most chunks of output a dump has
MaxChunks == 2

\* the two tests of BackupDump in the other order
combineErrors_execFirst(archErr, execFailed, dumpCmd) ==
    IF execFailed THEN <<dumpCmd \o " exec failed", "exec error">>
    ELSE IF archErr # << >> THEN <<"restic backup failed">> \o archErr
    ELSE << >>

\* what BackupDump returns after wait(): the archiver's error if there is
\* one, otherwise the error of the dump exec
combineErrors(archErr, execFailed, dumpCmd) ==
    IF archErr # << >> THEN <<"restic backup failed">> \o archErr
    ELSE IF execFailed THEN <<dumpCmd \o " exec failed", "exec error">>
    ELSE << >>

InitBackupDump ==
    /\ engine \in {"cnpg", "galera"}
    /\ mode = "backup"
    /\ cfg = IdleCfg
    /\ data = NoData
    /\ result = NoResult
    /\ pc = "Verify"
    /\ err = << >>
    /\ k8s = IdleK8s
    /\ \E t \in {"backup", "diverged"},
          d \in IF engine = "cnpg" THEN {"given"} ELSE {"given", "empty"},
          n \in 1..MaxChunks :
          loc = [backupType |-> t, donor |-> d, pending |-> n,
                 exec |-> "idle", restic |-> "idle",
                 stdin |-> "open", archErr |-> << >>, first |-> "none"]
    /\ log = << >>
    /\ snapshots = << >>

\* the donor check and rc.Init, each of which may end the call, then
\* ExecPipeOut and the start of BackupStdin (cmd.Start may fail)
DumpStart ==
    /\ mode = "backup" /\ pc = "Verify"
    /\ \/ /\ \E e \in {<<"donor pod not found">>,
                        <<"donor pod is not running and ready">>,
                        <<"failed to initialize restic repository">>}
                       \cup (IF loc.donor = "empty"
                             THEN {<<"failed to list pods">>,
                                   <<"no healthy running pods found">>}
                             ELSE {}) : err' = e
          /\ pc' = "done"
          /\ loc' = loc
       \/ /\ loc' = [loc EXCEPT !.exec = "running", !.restic = "running"]
          /\ pc' = "Streaming"
          /\ err' = err
       \/ /\ loc' = [loc EXCEPT !.exec = "running", !.restic = "failed",
                                !.archErr = <<"failed to start restic backup">>,
                                !.first = "restic"]
          /\ pc' = "Streaming"
          /\ err' = err
    /\ UNCHANGED <<engine, mode, cfg, data, result, k8s, log, snapshots>>

\* the goroutine of ExecPipeOut, inside ExecStream: one chunk of the dump is
\* written to the pipe and read by restic
ExecStreamWrites ==
    /\ mode = "backup" /\ pc = "Streaming" /\ loc.exec = "running"
    /\ loc.pending > 0 /\ loc.restic = "running"
    /\ loc' = [loc EXCEPT !.pending = @ - 1]
    /\ UNCHANGED <<engine, mode, cfg, data, result, pc, err, k8s, log, snapshots>>

\* the goroutine of ExecPipeOut: ExecStream returns nil after the last chunk
\* and the deferred pw.Close() ends the pipe
ExecStreamEnds ==
    /\ mode = "backup" /\ pc = "Streaming" /\ loc.exec = "running"
    /\ loc.pending = 0
    /\ loc' = [loc EXCEPT !.exec  = "ok",
                          !.stdin = IF loc.restic = "running" THEN "eof" ELSE @]
    /\ UNCHANGED <<engine, mode, cfg, data, result, pc, err, k8s, log, snapshots>>

\* the goroutine of ExecPipeOut: ExecStream returns an error (the exec
\* session breaks) and the pipe is closed with it
ExecStreamFails ==
    /\ mode = "backup" /\ pc = "Streaming" /\ loc.exec = "running"
    /\ loc' = [loc EXCEPT !.exec  = "failed",
                          !.stdin = IF loc.restic = "running" THEN "error" ELSE @,
                          !.first = IF @ = "none" THEN "exec" ELSE @]
    /\ UNCHANGED <<engine, mode, cfg, data, result, pc, err, k8s, log, snapshots>>

\* BackupStdin returns: restic exits non-zero at any time, or exits 0 once
\* its input has ended.  cmd.Wait gives the exit error, or else the error
\* met copying the pipe to restic's standard input; without either, a
\* missing summary line is an error too.  A restic that exits 0 has stored
\* a snapshot of what it read.
BackupStdinReturns ==
    /\ mode = "backup" /\ pc = "Streaming" /\ loc.restic = "running"
    /\ \E success \in BOOLEAN, summary \in BOOLEAN :
          /\ success => loc.stdin # "open"
          /\ loc' = [loc EXCEPT
                       !.restic  = IF success THEN "ok" ELSE "failed",
                       !.archErr = IF ~success THEN <<"restic backup failed", "exit status">>
                                   ELSE IF loc.stdin = "error"
                                        THEN <<"restic backup failed", "exec error">>
                                   ELSE IF ~summary
                                        THEN <<"restic backup completed but no summary in output">>
                                   ELSE << >>,
                       !.first   = IF ~success /\ @ = "none" THEN "restic" ELSE @]
          /\ snapshots' = IF success
                          THEN Append(snapshots, [type |-> loc.backupType,
                                                  complete |-> loc.stdin = "eof"])
                          ELSE snapshots
    /\ UNCHANGED <<engine, mode, cfg, data, result, pc, err, k8s, log>>

\* wait() has returned as well: the two errors are combined
DumpReturns ==
    /\ mode = "backup" /\ pc = "Streaming"
    /\ loc.restic # "running" /\ loc.exec # "running"
    /\ err' = combineErrors(loc.archErr, loc.exec = "failed",
                            IF engine = "cnpg" THEN "pg_dumpall" ELSE "mysqldump")
    /\ pc' = "done"
    /\ UNCHANGED <<engine, mode, cfg, data, result, loc, k8s, log, snapshots>>

NextBackupDump ==
    \/ DumpStart
    \/ ExecStreamWrites
    \/ ExecStreamEnds
    \/ ExecStreamFails
    \/ BackupStdinReturns
    \/ DumpReturns

SpecBackupDump == InitBackupDump /\ [][NextBackupDump]_vars

\* the same with every goroutine and process scheduled: each step that can
\* be taken is taken in the end, except the failure of the exec session,
\* which may never come
SpecBackupDumpLive ==
    /\ SpecBackupDump
    /\ WF_vars(DumpStart)
    /\ WF_vars(ExecStreamWrites)
    /\ WF_vars(ExecStreamEnds)
    /\ WF_vars(BackupStdinReturns)
    /\ WF_vars(DumpReturns)

\* C33: a streaming backup always returns; when the archiver fails to start
\* or exits before it has drained the pipe, the dump goroutine is released
\* all the same and wait() completes.
C33_BackupReturns == (mode = "backup") ~> (pc = "done")

\* C29: in a streaming backup in which both the dump exec and the archiver
\* report an error, the archiver's error is the one returned, unless the
\* dump exec failed first: then the error returned is the dump exec's.
C29_ExecErrorWhenFirst ==
    (mode = "backup" /\ pc = "done" /\ loc.exec = "failed" /\ loc.archErr # << >>) =>
        IF loc.first = "exec"
        THEN err[Len(err)] = "exec error"
        ELSE err = <<"restic backup failed">> \o loc.archErr

\* C29, amended: in a streaming backup in which both the dump exec and the
\* archiver report an error, the archiver's error is the one returned,
\* whichever of the two failed first.
C29_ArchiverErrorReturned ==
    (mode = "backup" /\ pc = "done" /\ loc.exec = "failed" /\ loc.archErr # << >>) =>
        err = <<"restic backup failed">> \o loc.archErr

\* the dump exec failed first, restic exited non-zero after it, and the call
\* returned restic's exit error
C29_Witness ==
    /\ mode = "backup" /\ pc = "done"
    /\ loc.exec = "failed" /\ loc.first = "exec" /\ loc.restic = "failed"
    /\ err = <<"restic backup failed", "restic backup failed", "exit status">>


----------------------------------------------------------------------------
(* engine/cnpg/restore.go: restoreDump.  The primary pod is verified, the    *)
(* non-primary instances are fenced by one patch that writes their names as  *)
(* the annotation, restic dump is piped into psql on the primary, and the    *)
(* annotation is patched to "[]" by unfenceAll on every return after the     *)
(* stream.  loc.pending counts the chunks of the dump not yet written to the *)
(* pipe; loc.dump and loc.psql are the states of the rc.Dump goroutine and   *)
(* of ExecStream.                                                            *)

\* status.instanceNames without status.currentPrimary, in order
restoreReplicas(names, primary) == SelectSeq(names, LAMBDA n : n # primary)

InitRestore ==
    /\ engine = "cnpg"
    /\ mode = "restore"
    /\ cfg = IdleCfg
    /\ data = NoData
    /\ result = NoResult
    /\ pc = "Verify"
    /\ err = << >>
    /\ \E a \in FencedAnnotations, n \in 0..RepairInstances :
          k8s = [fenced |-> a, instanceNames |-> [i \in 1..n |-> i],
                 currentPrimary |-> 1]
    /\ \E c \in 1..MaxChunks :
          loc = [before |-> k8s.fenced, replicas |-> << >>, fenced |-> FALSE,
                 pending |-> c, dump |-> "idle", psql |-> "idle"]
    /\ log = << >>
    /\ snapshots = << >>

\* restoreDump up to the start of the stream: the primary pod must be found,
\* Running and ready; the replicas are fenced when there are any
RestoreFence ==
    /\ mode = "restore" /\ pc = "Verify"
    /\ \E primary \in {"missing", "notReady", "ready"}, patchOK \in BOOLEAN :
          LET replicas == restoreReplicas(k8s.instanceNames, k8s.currentPrimary) IN
          IF primary = "missing"
          THEN /\ err' = <<"primary pod not found">>
               /\ pc' = "done"
               /\ UNCHANGED <<k8s, loc, log>>
          ELSE IF primary = "notReady"
          THEN /\ err' = <<"primary pod is not running and ready">>
               /\ pc' = "done"
               /\ UNCHANGED <<k8s, loc, log>>
          ELSE IF replicas # << >> /\ ~patchOK
          THEN /\ err' = <<"failed to fence replicas">>
               /\ pc' = "done"
               /\ loc' = [loc EXCEPT !.replicas = replicas]
               /\ UNCHANGED <<k8s, log>>
          ELSE /\ k8s' = IF replicas # << >>
                         THEN [k8s EXCEPT !.fenced = [present |-> TRUE, value |-> replicas]]
                         ELSE k8s
               /\ log' = IF replicas # << >>
                         THEN Append(log, [op |-> "fenceReplicas", pod |-> NoPod])
                         ELSE log
               /\ loc' = [loc EXCEPT !.replicas = replicas,
                                     !.fenced = (replicas # << >>),
                                     !.dump = "running", !.psql = "running"]
               /\ pc' = "Streaming"
               /\ UNCHANGED err
    /\ UNCHANGED <<engine, mode, cfg, data, result, snapshots>>

\* the goroutine of restoreDump, inside rc.Dump: one chunk of the dump is
\* written to the pipe and read by psql
DumpWrites ==
    /\ mode = "restore" /\ pc = "Streaming" /\ loc.dump = "running"
    /\ loc.pending > 0 /\ loc.psql = "running"
    /\ loc' = [loc EXCEPT !.pending = @ - 1]
    /\ UNCHANGED <<engine, mode, cfg, data, result, pc, err, k8s, log, snapshots>>

\* the goroutine of restoreDump: rc.Dump returns nil after the last chunk, or
\* an error at any point; the pipe is closed and done is closed
DumpEnds ==
    /\ mode = "restore" /\ pc = "Streaming" /\ loc.dump = "running"
    /\ \E ok \in BOOLEAN :
          /\ ok => loc.pending = 0
          /\ loc' = [loc EXCEPT !.dump = IF ok THEN "ok" ELSE "failed"]
    /\ UNCHANGED <<engine, mode, cfg, data, result, pc, err, k8s, log, snapshots>>

\* ExecStream of psql returns: nil once its standard input has ended and the
\* dump was fed whole, an error at any point
PsqlReturns ==
    /\ mode = "restore" /\ pc = "Streaming" /\ loc.psql = "running"
    /\ \E ok \in BOOLEAN :
          /\ ok => loc.dump # "running"
          /\ loc' = [loc EXCEPT !.psql = IF ok THEN "ok" ELSE "failed"]
    /\ UNCHANGED <<engine, mode, cfg, data, result, pc, err, k8s, log, snapshots>>

\* unfenceAll: the annotation is patched to "[]"; a failed patch is logged
unfenceAll(k, ok) ==
    IF ok THEN [k EXCEPT !.fenced = [present |-> TRUE, value |-> << >>]] ELSE k

\* restoreDump after <-done: the stream error, then the dump error, then the
\* success path, which unfences and deletes the replica pods when there are
\* replicas
RestoreReturns ==
    /\ mode = "restore" /\ pc = "Streaming"
    /\ loc.psql # "running" /\ loc.dump # "running"
    /\ \E ok \in BOOLEAN :
          LET failed   == loc.psql = "failed" \/ loc.dump = "failed"
              unfences == failed \/ loc.replicas # << >>
          IN /\ k8s' = IF unfences THEN unfenceAll(k8s, ok) ELSE k8s
             /\ log' = IF unfences
                       THEN Append(log, [op |-> "unfenceAll", pod |-> NoPod])
                       ELSE log
             /\ err' = IF loc.psql = "failed" THEN <<"restore stream failed">>
                       ELSE IF loc.dump = "failed" THEN <<"restic dump failed">>
                       ELSE << >>
    /\ pc' = "done"
    /\ UNCHANGED <<engine, mode, cfg, data, result, loc, snapshots>>

NextRestore ==
    \/ RestoreFence
    \/ DumpWrites
    \/ DumpEnds
    \/ PsqlReturns
    \/ RestoreReturns

SpecRestore == InitRestore /\ [][NextRestore]_vars

\* C34: once a restore has fenced the non-primary instances, every return
\* (success, psql stream failure, dump failure) leaves none of them fenced;
\* and a restore that finds the primary not running and ready returns an
\* error with the fence list as it found it.
C34_UnfencedOnReturn ==
    (mode = "restore" /\ pc = "done") =>
        /\ loc.fenced =>
              \A i \in DOMAIN loc.replicas : loc.replicas[i] \notin Fenced(k8s)
        /\ err \in {<<"primary pod not found">>,
                    <<"primary pod is not running and ready">>} =>
              ~loc.fenced /\ k8s.fenced = loc.before

\* C35: a restore leaves the fence entries that were there before it: an
\* instance fenced before the restore is still fenced when it returns.
C35_EarlierFencesKept ==
    (mode = "restore" /\ pc = "done") =>
        \A i \in DOMAIN parseFencedInstances(loc.before) :
            parseFencedInstances(loc.before)[i] \in Fenced(k8s)

----------------------------------------------------------------------------
(* restic/restore.go: ForgetGrouped as a whole.  The snapshots are listed,   *)
(* grouped and split by ApplyGroupRetention, then the snapshots of the       *)
(* removed groups are forgotten one by one, group after group; the first     *)
(* ForgetSnapshot that fails ends the call.  loc.forgotten holds the ShortIDs *)
(* the repository no longer has.                                             *)

\* the ShortIDs of the snapshots of the groups, in the order of the two loops
RECURSIVE forgetOrder(_)
forgetOrder(groups) ==
    IF groups = << >> THEN << >>
    ELSE [j \in 1..Len(Head(groups).Snapshots) |-> Head(groups).Snapshots[j].ShortID]
             \o forgetOrder(Tail(groups))

\* no ForgetSnapshot call fails
NoFailure == 0

InitForget ==
    /\ engine = "restic"
    /\ mode = "forget"
    /\ cfg \in RetentionPolicies
    /\ snapshots \in RetentionInputs
    /\ data = NoData
    /\ result = NoResult
    /\ pc = "ForgetGrouped"
    /\ err = << >>
    /\ k8s = IdleK8s
    /\ loc = [forgotten |-> {}, keepCount |-> 0, removeCount |-> 0, pruned |-> FALSE]
    /\ log = << >>

ForgetGrouped ==
    /\ mode = "forget" /\ pc = "ForgetGrouped"
    /\ \E listed \in BOOLEAN, prune \in BOOLEAN, pruneOK \in BOOLEAN,
          groups \in GroupByJob(snapshots) :
          LET r     == ApplyGroupRetention(groups, cfg)
              order == forgetOrder(r.remove)
              kept  == Len(forgetOrder(r.keep))
          IN IF ~listed
             THEN /\ err' = <<"failed to list snapshots">>
                  /\ UNCHANGED <<result, loc>>
             ELSE \E failAt \in {NoFailure} \cup (1..Len(order)) :
                     LET removed == IF failAt = NoFailure THEN Len(order)
                                    ELSE failAt - 1
                         pruning == failAt = NoFailure /\ prune /\ removed > 0
                     IN /\ result' = [groups |-> groups, keep |-> r.keep,
                                      remove |-> r.remove]
                        /\ loc' = [forgotten   |-> {order[i] : i \in 1..removed},
                                   keepCount   |-> kept,
                                   removeCount |-> removed,
                                   pruned      |-> pruning /\ pruneOK]
                        /\ err' = IF failAt # NoFailure
                                  THEN <<"failed to forget snapshot">>
                                  ELSE IF pruning /\ ~pruneOK THEN <<"prune failed">>
                                  ELSE << >>
    /\ pc' = "returned"
    /\ UNCHANGED <<engine, mode, cfg, data, k8s, log, snapshots>>

NextForget == ForgetGrouped

SpecForget == InitForget /\ [][NextForget]_vars

\* C36: when ForgetGrouped returns, also on a ForgetSnapshot error, every
\* job group is entirely in the repository or entirely forgotten.
C36_GroupsWholeOnReturn ==
    (mode = "forget" /\ pc = "returned") =>
        \A i, j \in 1..Len(snapshots) :
            (snapshots[i].job # "" /\ snapshots[i].job = snapshots[j].job)
                => (i \in loc.forgotten <=> j \in loc.forgotten)

----------------------------------------------------------------------------
(* controller/database_controller.go: Reconcile of the database CR           *)
(* "cnpg/ns/a".  k8s.cr is the CR (exists, the policy, exclude, mode and     *)
(* managed annotations), k8s.policy the spec of the BackupPolicy "default"   *)
(* or NoPolicy; data is the Scheduler.  loc.fresh holds from the return of a *)
(* Reconcile to the next change of the cluster.                              *)

\* there is no BackupPolicy "default"
NoPolicy == [none |-> TRUE]

\* the database CR: annotation values, "" for an annotation that is not set
DatabaseCRs ==
    [exists : BOOLEAN, policy : {"", "default"}, exclude : {"", "true"},
     mode : {"", "triage"}, managed : {"", "true"}]

\* v1alpha1.ParseAnnotations: the policy's defaults with the overrides of the
\* annotations
ParseAnnotations(annotations, policy) ==
    [policy EXCEPT !.Mode = IF annotations.mode # "" THEN annotations.mode ELSE @]

InitReconcile ==
    /\ engine = "operator"
    /\ mode = "reconcile"
    /\ cfg = IdleCfg
    /\ data = [managed |-> [k \in {"cnpg/ns/a"} |-> NotManaged], cron |-> {}, nextID |-> 1]
    /\ result = NoResult
    /\ pc = "running"
    /\ err = << >>
    /\ \E cr \in DatabaseCRs, policy \in {NoPolicy} \cup Policies :
          /\ cr.managed = ""
          /\ k8s = [cr |-> cr, policy |-> policy]
    /\ loc = [fresh |-> FALSE]
    /\ log = << >>
    /\ snapshots = << >>

\* the CR or the BackupPolicy is created, edited or deleted
ClusterChanges ==
    /\ mode = "reconcile"
    /\ \/ \E cr \in DatabaseCRs :
             /\ cr.managed = k8s.cr.managed
             /\ cr # k8s.cr
             /\ k8s' = [k8s EXCEPT !.cr = cr]
       \/ \E policy \in {NoPolicy} \cup Policies :
             /\ policy # k8s.policy
             /\ k8s' = [k8s EXCEPT !.policy = policy]
    /\ loc' = [fresh |-> FALSE]
    /\ err' = << >>
    /\ UNCHANGED <<engine, mode, cfg, data, result, pc, log, snapshots>>

\* DatabaseReconciler.Reconcile for the request "ns/a"
Reconcile ==
    /\ mode = "reconcile"
    /\ \E getOK \in BOOLEAN, policyOK \in BOOLEAN, patchOK \in BOOLEAN :
          LET key == "cnpg/ns/a"
              cr  == k8s.cr
          IN IF ~getOK
             THEN /\ err' = <<"get failed">>
                  /\ UNCHANGED <<data, k8s>>
             ELSE IF ~cr.exists \/ cr.policy = "" \/ cr.exclude = "true"
             THEN /\ data' = deregisterLocked(data, key)
                  /\ err' = << >>
                  /\ UNCHANGED k8s
             ELSE IF k8s.policy = NoPolicy \/ ~policyOK
             THEN /\ err' = << >>
                  /\ UNCHANGED <<data, k8s>>
             ELSE LET d == register(data, key, ParseAnnotations(cr, k8s.policy))
                  IN /\ d.nextID <= MaxEntryID + 1
                     /\ data' = d
                     /\ k8s' = IF cr.managed # "true" /\ patchOK
                               THEN [k8s EXCEPT !.cr.managed = "true"]
                               ELSE k8s
                     /\ err' = << >>
    /\ loc' = [fresh |-> TRUE]
    /\ UNCHANGED <<engine, mode, cfg, result, pc, log, snapshots>>

NextReconcile == ClusterChanges \/ Reconcile

SpecReconcile == InitReconcile /\ [][NextReconcile]_vars

\* C40: after a Reconcile of a database CR has completed, the database is
\* registered in the scheduler if and only if the CR exists, has a policy
\* annotation that names an existing BackupPolicy, and is not marked
\* exclude=true.
C40_RegisteredIffEligible ==
    (mode = "reconcile" /\ loc.fresh /\ err = << >>) =>
        (data.managed["cnpg/ns/a"] # NotManaged
            <=> /\ k8s.cr.exists
                /\ k8s.cr.policy # "" /\ k8s.policy # NoPolicy
                /\ k8s.cr.exclude # "true")
===========================================================================
